---- MODULE Spec2Model ----
(***************************************************************************)
(* The command-buffer subsystem of the CUDA adapter                        *)
(* (source/adapters/cuda/command_buffer.cpp): one command buffer, the      *)
(* graph it records, its sync-point registry, its command handles, the     *)
(* compiled (executable) graph, and the kernel objects whose argument      *)
(* tables an update mutates.                                               *)
(*                                                                         *)
(* Every API entry point is one action.  The vendor graph engine is an     *)
(* external collaborator: each of its calls may succeed or fail, which the *)
(* actions take as a boolean input.  A thrown ur_result_t is modelled as   *)
(* the call's result; an escaping std::bad_alloc as OUT_OF_HOST_MEMORY.    *)
(***************************************************************************)
EXTENDS Integers, Sequences, FiniteSets, TLC

(***************************************************************************)
(* Bounds of the model                                                     *)
(***************************************************************************)
\* appends per buffer
MaxAppends == 2
\* caller-side Retain calls per object
MaxRetain == 1
\* Finalize calls that reach the graph engine
MaxFinalize == 2
\* command handles the caller updates
MaxUpdated == 1
\* width of size_t, scaled down
SizeBits == 6

(***************************************************************************)
(* Program constants                                                       *)
(***************************************************************************)
\* size_t ThreadsPerBlock[3] = {32u, 1u, 1u}
WarpSize == 32
\* sizeof(uint32_t): the widest element cuGraphAddMemsetNode accepts
MemsetWidth == 4

SizeTMod == 2 ^ SizeBits

\* ur_result_t values returned (or thrown) by the entry points
SUCCESS == "SUCCESS"
INVALID_VALUE == "INVALID_VALUE"
INVALID_SIZE == "INVALID_SIZE"
INVALID_KERNEL == "INVALID_KERNEL"
INVALID_OPERATION == "INVALID_OPERATION"
INVALID_WORK_DIMENSION == "INVALID_WORK_DIMENSION"
INVALID_WORK_GROUP_SIZE == "INVALID_WORK_GROUP_SIZE"
OUT_OF_HOST_MEMORY == "OUT_OF_HOST_MEMORY"
UNKNOWN == "UNKNOWN"
\* the backend error a failed graph-engine call is translated to
BACKEND_ERROR == "BACKEND_ERROR"
\* undefined behaviour that ended the process
CRASH == "CRASH"

\* kernel objects of the context
Kernels == {"K1", "K2", "K3"}
\* value left in memory the constructor does not initialise
Junk == 7

VARIABLES
  alive,             \* the command buffer object has not been deleted
  IsUpdatable,       \* ur_exp_command_buffer_handle_t_::IsUpdatable
  RefCountInternal,  \* ...::RefCountInternal
  RefCountExternal,  \* ...::RefCountExternal
  NextSyncPoint,     \* ...::NextSyncPoint
  SyncPoints,        \* ...::SyncPoints, sync point -> node of CudaGraph
  CudaGraph,         \* ...::CudaGraph, the nodes in the order they were added
  CudaGraphExec,     \* ...::CudaGraphExec, the compiled graph (or null)
  CommandHandles,    \* ...::CommandHandles, ids into Commands
  Commands,          \* the command-handle objects ever allocated
  kernelArgs,        \* argument table of every kernel object
  held,              \* what the caller holds: references to the buffer and to
                     \* each command, sync points of a second command buffer
  launched,          \* what the last cuGraphLaunch executed
  last               \* the last API call: name, arguments, result, outputs

vars == <<alive, IsUpdatable, RefCountInternal, RefCountExternal, NextSyncPoint,
          SyncPoints, CudaGraph, CudaGraphExec, CommandHandles, Commands,
          kernelArgs, held, launched, last>>

bufferVars == <<alive, IsUpdatable, RefCountInternal, RefCountExternal>>
graphVars == <<NextSyncPoint, SyncPoints, CudaGraph>>
commandVars == <<CommandHandles, Commands, held>>

(***************************************************************************)
(* Helpers                                                                 *)
(***************************************************************************)
\* value of *pSyncPoint / *phCommand when the call did not write it
NotWritten == 0 - 1

Call(op, in, res, sp, cmd) ==
  [op |-> op, in |-> in, res |-> res, sp |-> sp, cmd |-> cmd]

\* a call that returns res without touching any object
Returns(op, in, res) ==
  /\ last' = Call(op, in, res, NotWritten, NotWritten)
  /\ UNCHANGED <<bufferVars, graphVars, commandVars, CudaGraphExec, kernelArgs,
                 launched>>

\* no call is in flight: the caller has taken the result of the previous one
Idle == Call("idle", <<>>, SUCCESS, NotWritten, NotWritten)

\* the caller may pass the buffer handle only while it holds a reference
BufferUsable == alive /\ held.buf > 0

\* pad a sequence of at most three entries to three with fill
Pad3(s, fill) == [i \in 1..3 |-> IF i <= Len(s) THEN s[i] ELSE fill]

\* mutant: sync points missing from the registry are skipped
getNodesSkippingUnknown(SyncPointWaitList) ==
  [res |-> SUCCESS,
   nodes |-> [i \in 1..Len(SelectSeq(SyncPointWaitList,
                                      LAMBDA s : s \in DOMAIN SyncPoints)) |->
                SyncPoints[SelectSeq(SyncPointWaitList,
                                     LAMBDA s : s \in DOMAIN SyncPoints)[i]]]]

getNodesFromSyncPoints(SyncPointWaitList) ==
  IF \E i \in 1..Len(SyncPointWaitList) :
       SyncPointWaitList[i] \notin DOMAIN SyncPoints
    THEN [res |-> INVALID_VALUE, nodes |-> <<>>]
    ELSE [res |-> SUCCESS,
          nodes |-> [i \in 1..Len(SyncPointWaitList) |->
                       SyncPoints[SyncPointWaitList[i]]]]

\* SyncPoints[SyncPoint] = CuNode; NextSyncPoint++
registerSyncPoint(SP, SyncPoint, CuNode) ==
  [s \in DOMAIN SP \cup {SyncPoint} |-> IF s = SyncPoint THEN CuNode ELSE SP[s]]

\* cuGraphAdd*Node: the node is appended to the graph, its handle is its index
GraphNode(kind, deps, params) == [kind |-> kind, deps |-> deps, params |-> params]

\* the tail every successful append shares: add the node, addSyncPoint(GraphNode),
\* write *pSyncPoint
addSyncPoint(op, in, nodes) ==
  /\ CudaGraph' = CudaGraph \o nodes
  /\ SyncPoints' = registerSyncPoint(SyncPoints, NextSyncPoint,
                                     Len(CudaGraph) + Len(nodes))
  /\ NextSyncPoint' = NextSyncPoint + 1
  /\ last' = Call(op, in, SUCCESS, NextSyncPoint, NotWritten)

setCopyParams(Src, SrcType, Dst, DstType, Size) ==
  [srcMemoryType |-> SrcType, src |-> Src, dstMemoryType |-> DstType,
   dst |-> Dst, WidthInBytes |-> Size, Height |-> 1, Depth |-> 1]

\* an append that adds exactly one node depending on the wait-list
AppendNode(op, in, wl, kind, params, backendOk) ==
  LET deps == getNodesFromSyncPoints(wl) IN
  IF deps.res # SUCCESS THEN Returns(op, in, deps.res)
  ELSE IF ~backendOk THEN Returns(op, in, BACKEND_ERROR)
  ELSE /\ addSyncPoint(op, in, <<GraphNode(kind, deps.nodes, params)>>)
       /\ UNCHANGED <<bufferVars, commandVars, CudaGraphExec, kernelArgs,
                      launched>>

(***************************************************************************)
(* Memory objects                                                          *)
(***************************************************************************)
\* BufferMem::getSize() of the memory object the buffer-scoped appends touch
MemSize == 8

\* BufferMem::getPtrWithOffset: device address of byte Offset of the object
getPtrWithOffset(Offset) == Offset

\* size_t addition
AddSizeT(a, b) == (a + b) % SizeTMod

\* the caller's pattern of PatternSize bytes: byte i holds i
PatternBytes(PatternSize) == [i \in 1..PatternSize |-> i]

RECURSIVE BitAnd(_, _)
BitAnd(a, b) ==
  IF a = 0 \/ b = 0 THEN 0
  ELSE (a % 2) * (b % 2) + 2 * BitAnd(a \div 2, b \div 2)

\* ((patternSize & (patternSize - 1)) == 0) && (patternSize > 0)
PatternSizeIsValid(patternSize) ==
  /\ BitAnd(patternSize, (patternSize + SizeTMod - 1) % SizeTMod) = 0
  /\ patternSize > 0

(***************************************************************************)
(* Append: copies, prefetch, advise                                        *)
(***************************************************************************)
urCommandBufferAppendUSMMemcpyExp(pDst, pSrc, size, wl, backendOk) ==
  /\ BufferUsable
  /\ AppendNode("AppendUSMMemcpy", [wl |-> wl, size |-> size], wl, "memcpy",
                setCopyParams(pSrc, "HOST", pDst, "HOST", size), backendOk)

urCommandBufferAppendMemBufferCopyExp(srcOffset, dstOffset, size, wl, backendOk) ==
  LET in == [wl |-> wl, srcOffset |-> srcOffset, dstOffset |-> dstOffset,
             size |-> size] IN
  /\ BufferUsable
  /\ IF ~(AddSizeT(size, dstOffset) <= MemSize)
       THEN Returns("AppendMemBufferCopy", in, INVALID_SIZE)
     ELSE IF ~(AddSizeT(size, srcOffset) <= MemSize)
       THEN Returns("AppendMemBufferCopy", in, INVALID_SIZE)
     ELSE AppendNode("AppendMemBufferCopy", in, wl, "memcpy",
                     setCopyParams(getPtrWithOffset(srcOffset), "DEVICE",
                                   getPtrWithOffset(dstOffset), "DEVICE", size),
                     backendOk)

\* setCopyRectParams: origin, pitches and region of both sides, as passed
setCopyRectParams(region, SrcType, srcOrigin, DstType, dstOrigin) ==
  [srcMemoryType |-> SrcType, src |-> srcOrigin, dstMemoryType |-> DstType,
   dst |-> dstOrigin, WidthInBytes |-> region, Height |-> region,
   Depth |-> region]

urCommandBufferAppendMemBufferCopyRectExp(srcOrigin, dstOrigin, region, wl, backendOk) ==
  /\ BufferUsable
  /\ AppendNode("AppendMemBufferCopyRect", [wl |-> wl, size |-> region], wl,
                "memcpy",
                setCopyRectParams(region, "DEVICE", srcOrigin, "DEVICE", dstOrigin),
                backendOk)

urCommandBufferAppendMemBufferWriteExp(offset, size, pSrc, wl, backendOk) ==
  /\ BufferUsable
  /\ AppendNode("AppendMemBufferWrite",
                [wl |-> wl, offset |-> offset, size |-> size], wl, "memcpy",
                setCopyParams(pSrc, "HOST", getPtrWithOffset(offset), "DEVICE", size),
                backendOk)

urCommandBufferAppendMemBufferReadExp(offset, size, pDst, wl, backendOk) ==
  /\ BufferUsable
  /\ AppendNode("AppendMemBufferRead",
                [wl |-> wl, offset |-> offset, size |-> size], wl, "memcpy",
                setCopyParams(getPtrWithOffset(offset), "DEVICE", pDst, "HOST", size),
                backendOk)

urCommandBufferAppendMemBufferWriteRectExp(bufferOffset, hostOffset, region, wl, backendOk) ==
  /\ BufferUsable
  /\ AppendNode("AppendMemBufferWriteRect", [wl |-> wl, size |-> region], wl,
                "memcpy",
                setCopyRectParams(region, "HOST", hostOffset, "DEVICE", bufferOffset),
                backendOk)

urCommandBufferAppendMemBufferReadRectExp(bufferOffset, hostOffset, region, wl, backendOk) ==
  /\ BufferUsable
  /\ AppendNode("AppendMemBufferReadRect", [wl |-> wl, size |-> region], wl,
                "memcpy",
                setCopyRectParams(region, "DEVICE", bufferOffset, "HOST", hostOffset),
                backendOk)

\* Mem, Size and Flags are unnamed parameters: the body cannot read them
\* mutant: the prefetch node carries the size it was asked for
PrefetchRecordingSize(Mem, Size, Flags, wl, backendOk) ==
  /\ BufferUsable
  /\ AppendNode("AppendUSMPrefetch", [wl |-> wl], wl, "empty", <<Size>>, backendOk)

urCommandBufferAppendUSMPrefetchExp(Mem, Size, Flags, wl, backendOk) ==
  /\ BufferUsable
  /\ AppendNode("AppendUSMPrefetch", [wl |-> wl], wl, "empty", <<>>, backendOk)

urCommandBufferAppendUSMAdviseExp(Mem, Size, Advice, wl, backendOk) ==
  /\ BufferUsable
  /\ AppendNode("AppendUSMAdvise", [wl |-> wl], wl, "empty", <<>>, backendOk)

(***************************************************************************)
(* Append: fills                                                           *)
(***************************************************************************)
MemsetParams(dst, elementSize, height, pitch, value) ==
  [dst |-> dst, elementSize |-> elementSize, height |-> height,
   pitch |-> pitch, value |-> value, width |-> 1]

\* mutant: the one-byte nodes of a long pattern are left out
FillNodesWithoutByteSteps(DstPtr, Pattern, PatternSize, Size, DepsList, first) ==
  LET w == IF PatternSize \in {1, 2, 4} THEN PatternSize ELSE MemsetWidth IN
  <<GraphNode("memset", DepsList,
              MemsetParams(DstPtr, w, Size \div w, w, SubSeq(Pattern, 1, w)))>>

\* mutant: every node of the chain is added with the dependencies of the first
FillNodesParallel(DstPtr, Pattern, PatternSize, Size, DepsList, first) ==
  IF PatternSize \in {1, 2, 4}
    THEN <<GraphNode("memset", DepsList,
                     MemsetParams(DstPtr, PatternSize, Size \div PatternSize,
                                  PatternSize, Pattern))>>
    ELSE <<GraphNode("memset", DepsList,
                     MemsetParams(DstPtr, MemsetWidth, Size \div MemsetWidth,
                                  MemsetWidth, SubSeq(Pattern, 1, MemsetWidth)))>>
         \o [k \in 1..(PatternSize - MemsetWidth) |->
               GraphNode("memset", DepsList,
                         MemsetParams(DstPtr + (MemsetWidth + k - 1), 1,
                                      Size \div PatternSize, PatternSize,
                                      <<Pattern[MemsetWidth + k]>>))]

\* the memset nodes of one fill, in the order the helper adds them, each with the
\* dependencies it is added with (first is the index the first node will get)
FillNodes(DstPtr, Pattern, PatternSize, Size, DepsList, first) ==
  IF PatternSize \in {1, 2, 4}
    THEN <<GraphNode("memset", DepsList,
                     MemsetParams(DstPtr, PatternSize, Size \div PatternSize,
                                  PatternSize, Pattern))>>
    ELSE <<GraphNode("memset", DepsList,
                     MemsetParams(DstPtr, MemsetWidth, Size \div MemsetWidth,
                                  MemsetWidth, SubSeq(Pattern, 1, MemsetWidth)))>>
         \o [k \in 1..(PatternSize - MemsetWidth) |->
               \* Step = MemsetWidth + k - 1, counted from 0
               GraphNode("memset", <<first + k - 1>>,
                         MemsetParams(DstPtr + (MemsetWidth + k - 1), 1,
                                      Size \div PatternSize, PatternSize,
                                      <<Pattern[MemsetWidth + k]>>))]

\* device memory: every address holds a byte
Addresses == 0..(SizeTMod - 1)

\* what the engine does when it runs a memset node: height rows, pitch bytes
\* apart, of one element (width 1) of elementSize bytes holding value
ExecMemset(mem, p) ==
  [a \in Addresses |->
     IF \E r \in 0..(p.height - 1), j \in 0..(p.elementSize - 1) :
          a = p.dst + r * p.pitch + j
       THEN LET j == CHOOSE j \in 0..(p.elementSize - 1) :
                       \E r \in 0..(p.height - 1) : a = p.dst + r * p.pitch + j
            IN p.value[j + 1]
       ELSE mem[a]]

\* run the first n nodes of a chain one after the other
RECURSIVE ExecNodes(_, _, _)
ExecNodes(mem, nodes, n) ==
  IF n = 0 THEN mem
  ELSE ExecMemset(ExecNodes(mem, nodes, n - 1), nodes[n].params)

\* mutant: the nodes added before the one that failed are taken out again
FillHelperRollingBack(op, in, DstPtr, Pattern, PatternSize, Size, wl, failAt) ==
  LET deps == getNodesFromSyncPoints(wl)
      nodes == FillNodes(DstPtr, Pattern, PatternSize, Size, deps.nodes,
                         Len(CudaGraph) + 1)
  IN
  IF deps.res # SUCCESS THEN Returns(op, in, deps.res)
  ELSE IF failAt \in 1..Len(nodes)
    THEN Returns(op, [in EXCEPT !.failed = failAt], BACKEND_ERROR)
    ELSE /\ addSyncPoint(op, in, nodes)
         /\ UNCHANGED <<bufferVars, commandVars, CudaGraphExec, kernelArgs,
                        launched>>

\* failAt = 0: every cuGraphAddMemsetNode succeeds; failAt = k: the k-th fails
\* (in.failed then tells which node the driver refused)
enqueueCommandBufferFillHelper(op, in, DstPtr, Pattern, PatternSize, Size, wl, failAt) ==
  LET deps == getNodesFromSyncPoints(wl)
      nodes == FillNodes(DstPtr, Pattern, PatternSize, Size, deps.nodes,
                         Len(CudaGraph) + 1)
  IN
  IF deps.res # SUCCESS THEN Returns(op, in, deps.res)
  ELSE IF failAt \in 1..Len(nodes)
    THEN /\ CudaGraph' = CudaGraph \o SubSeq(nodes, 1, failAt - 1)
         /\ last' = Call(op, [in EXCEPT !.failed = failAt], BACKEND_ERROR,
                         NotWritten, NotWritten)
         /\ UNCHANGED <<bufferVars, NextSyncPoint, SyncPoints, commandVars,
                        CudaGraphExec, kernelArgs, launched>>
    ELSE /\ addSyncPoint(op, in, nodes)
         /\ UNCHANGED <<bufferVars, commandVars, CudaGraphExec, kernelArgs,
                        launched>>

\* ub: what the build makes of offset % 0 (a trap, or a value that lets the
\* later patternSize > 0 test reject the call)
urCommandBufferAppendMemBufferFillExp(patternNull, patternSize, offset, size, wl, failAt, ub) ==
  LET in == [wl |-> wl, patternNull |-> patternNull, patternSize |-> patternSize,
             offset |-> offset, size |-> size, failed |-> 0]
      op == "AppendMemBufferFill"
  IN
  /\ BufferUsable
  /\ IF patternSize = 0 THEN Returns(op, in, ub)
     ELSE LET ArgsAreMultiplesOfPatternSize ==
                (offset % patternSize = 0) \/ (size % patternSize = 0)
              PatternIsValid == ~patternNull
          IN
          IF ~(ArgsAreMultiplesOfPatternSize /\ PatternIsValid
               /\ PatternSizeIsValid(patternSize))
            THEN Returns(op, in, INVALID_SIZE)
            ELSE enqueueCommandBufferFillHelper(op, in, getPtrWithOffset(offset),
                                                PatternBytes(patternSize),
                                                patternSize, size, wl, failAt)

urCommandBufferAppendUSMFillExp(pPtr, patternNull, patternSize, size, wl, failAt) ==
  LET in == [wl |-> wl, patternNull |-> patternNull, patternSize |-> patternSize,
             offset |-> 0, size |-> size, failed |-> 0]
      op == "AppendUSMFill"
  IN
  /\ BufferUsable
  /\ IF ~(~patternNull /\ PatternSizeIsValid(patternSize))
       THEN Returns(op, in, INVALID_SIZE)
       ELSE enqueueCommandBufferFillHelper(op, in, pPtr, PatternBytes(patternSize),
                                           patternSize, size, wl, failAt)

(***************************************************************************)
(* Kernels and command handles                                             *)
(***************************************************************************)
\* argument slots of a kernel
NumArgs == 2
\* a slot cleared by setKernelArg(ArgIndex, 0, nullptr)
Cleared == 0 - 2

\* the null pointer passed for an optional array
NullPtr == <<>>

\* the first WorkDim entries of a caller's array, as memcpy reads them
Read(Ptr, WorkDim) == SubSeq(Ptr, 1, WorkDim)

\* product of the global work size over the work dimensions
TotalWork(WorkDim, GlobalWorkSize) ==
  LET g == Pad3(Read(GlobalWorkSize, WorkDim), 1) IN g[1] * g[2] * g[3]

\* block/grid decomposition: the explicit local size must divide the global
\* size in every dimension; without one the warp-sized default block is kept
setKernelParams(WorkDim, GlobalWorkOffset, GlobalWorkSize, LocalWorkSize) ==
  LET ProvidedLocalWorkGroupSize == LocalWorkSize # NullPtr
      ThreadsPerBlock ==
        IF ProvidedLocalWorkGroupSize
          THEN Pad3(Read(LocalWorkSize, WorkDim), 1)
          ELSE <<WarpSize, 1, 1>>
      BlocksPerGrid ==
        [i \in 1..3 |->
           IF i <= WorkDim /\ ThreadsPerBlock[i] # 0
             THEN (GlobalWorkSize[i] + ThreadsPerBlock[i] - 1)
                    \div ThreadsPerBlock[i]
             ELSE 1]
  IN
  IF /\ ProvidedLocalWorkGroupSize
     /\ \E i \in 1..WorkDim :
          \/ LocalWorkSize[i] = 0
          \/ GlobalWorkSize[i] % LocalWorkSize[i] # 0
    THEN [res |-> INVALID_WORK_GROUP_SIZE, ThreadsPerBlock |-> <<WarpSize, 1, 1>>,
          BlocksPerGrid |-> <<1, 1, 1>>]
    ELSE [res |-> SUCCESS, ThreadsPerBlock |-> ThreadsPerBlock,
          BlocksPerGrid |-> BlocksPerGrid]

\* CUDA_KERNEL_NODE_PARAMS; the engine copies the argument values when it is
\* handed the structure
KernelNodeParams(Kernel, kp, GlobalWorkOffset, WorkDim) ==
  [func |-> Kernel, gridDim |-> kp.BlocksPerGrid, blockDim |-> kp.ThreadsPerBlock,
   offset |-> Pad3(Read(GlobalWorkOffset, WorkDim), 0),
   kernelParams |-> kernelArgs[Kernel]]

\* mutant: the constructor registers the primary kernel only
NewCommandHandlePrimaryOnly(Kernel, Node, Params, WorkDim, GlobalWorkOffsetPtr, GlobalWorkSizePtr, LocalWorkSizePtr, KernelAlternatives, uninit) ==
  [alive |-> TRUE,
   Kernel |-> Kernel,
   ValidKernelHandles |-> {Kernel},
   Node |-> Node,
   Params |-> Params,
   WorkDim |-> WorkDim,
   GlobalWorkOffset |-> Pad3(Read(GlobalWorkOffsetPtr, WorkDim), 0),
   GlobalWorkSize |-> Pad3(Read(GlobalWorkSizePtr, WorkDim), 0),
   LocalWorkSize |-> IF LocalWorkSizePtr # NullPtr
                       THEN Pad3(Read(LocalWorkSizePtr, WorkDim), uninit)
                       ELSE <<0, 0, 0>>,
   RefCountInternal |-> 2,
   RefCountExternal |-> 1]

\* the constructor, followed by NewCommand->incrementInternalReferenceCount().
\* uninit: the content of the LocalWorkSize entries the constructor leaves unset
NewCommandHandle(Kernel, Node, Params, WorkDim, GlobalWorkOffsetPtr, GlobalWorkSizePtr, LocalWorkSizePtr, KernelAlternatives, uninit) ==
  [alive |-> TRUE,
   Kernel |-> Kernel,
   ValidKernelHandles |->
     {Kernel} \cup {KernelAlternatives[i] : i \in 1..Len(KernelAlternatives)},
   Node |-> Node,
   Params |-> Params,
   WorkDim |-> WorkDim,
   GlobalWorkOffset |-> Pad3(Read(GlobalWorkOffsetPtr, WorkDim), 0),
   GlobalWorkSize |-> Pad3(Read(GlobalWorkSizePtr, WorkDim), 0),
   LocalWorkSize |-> IF LocalWorkSizePtr # NullPtr
                       THEN Pad3(Read(LocalWorkSizePtr, WorkDim), uninit)
                       ELSE <<0, 0, 0>>,
   RefCountInternal |-> 2,
   RefCountExternal |-> 1]

\* mutant: the alternatives are not compared with the primary kernel
AlternativeNeverPrimary(hKernel, phKernelAlternatives) == FALSE

\* for (i < numKernelAlternatives) UR_ASSERT(phKernelAlternatives[i] != hKernel)
AlternativeIsPrimary(hKernel, phKernelAlternatives) ==
  \E i \in 1..Len(phKernelAlternatives) : phKernelAlternatives[i] = hKernel

\* mutant: a work dimension of zero is let through
WorkDimNeverZero(workDim) == FALSE

\* UR_ASSERT(workDim > 0, UR_RESULT_ERROR_INVALID_WORK_DIMENSION)
WorkDimIsZero(workDim) == ~(workDim > 0)

urCommandBufferAppendKernelLaunchExp(hKernel, sameCtx, workDim, pGlobalWorkOffset, pGlobalWorkSize, pLocalWorkSize, phKernelAlternatives, wl, phCommand, backendOk, allocOk, uninit) ==
  LET op == "AppendKernelLaunch"
      in == [wl |-> wl, hKernel |-> hKernel, sameCtx |-> sameCtx,
             workDim |-> workDim, gws |-> pGlobalWorkSize,
             alts |-> phKernelAlternatives, phCommand |-> phCommand]
      deps == getNodesFromSyncPoints(wl)
      kp == setKernelParams(workDim, pGlobalWorkOffset, pGlobalWorkSize,
                            pLocalWorkSize)
      NodeParams == KernelNodeParams(hKernel, kp, pGlobalWorkOffset, workDim)
      Node == Len(CudaGraph) + 1
      NewCommand == Len(Commands) + 1
  IN
  /\ BufferUsable
  /\ IF ~sameCtx THEN Returns(op, in, INVALID_KERNEL)
     ELSE IF WorkDimIsZero(workDim) THEN Returns(op, in, INVALID_WORK_DIMENSION)
     ELSE IF ~(workDim < 4) THEN Returns(op, in, INVALID_WORK_DIMENSION)
     ELSE IF AlternativeIsPrimary(hKernel, phKernelAlternatives)
       THEN Returns(op, in, INVALID_VALUE)
     ELSE IF deps.res # SUCCESS THEN Returns(op, in, deps.res)
     ELSE IF pGlobalWorkSize[1] = 0
       THEN \* an empty node if the kernel workload size is zero
            IF ~backendOk THEN Returns(op, in, BACKEND_ERROR)
            ELSE /\ addSyncPoint(op, in, <<GraphNode("empty", deps.nodes, <<>>)>>)
                 /\ UNCHANGED <<bufferVars, commandVars, CudaGraphExec,
                                kernelArgs, launched>>
     ELSE IF kp.res # SUCCESS THEN Returns(op, in, kp.res)
     ELSE IF ~backendOk THEN Returns(op, in, BACKEND_ERROR)
     ELSE /\ CudaGraph' = Append(CudaGraph,
                                 GraphNode("kernel", deps.nodes, NodeParams))
          /\ SyncPoints' = registerSyncPoint(SyncPoints, NextSyncPoint, Node)
          /\ NextSyncPoint' = NextSyncPoint + 1
          /\ IF ~allocOk
               THEN \* new throws std::bad_alloc, which no handler here catches
                    /\ last' = Call(op, in, OUT_OF_HOST_MEMORY, NextSyncPoint,
                                    NotWritten)
                    /\ UNCHANGED <<bufferVars, commandVars>>
               ELSE /\ Commands' = Append(Commands,
                         NewCommandHandle(hKernel, Node, NodeParams, workDim,
                                          pGlobalWorkOffset, pGlobalWorkSize,
                                          pLocalWorkSize, phKernelAlternatives,
                                          uninit))
                    /\ RefCountInternal' = RefCountInternal + 1
                    /\ CommandHandles' = Append(CommandHandles, NewCommand)
                    /\ held' = [held EXCEPT
                                  !.cmd = Append(@, IF phCommand THEN 1 ELSE 0)]
                    /\ last' = Call(op, in, SUCCESS, NextSyncPoint,
                                    IF phCommand THEN NewCommand ELSE NotWritten)
                    /\ UNCHANGED <<alive, IsUpdatable, RefCountExternal>>
          /\ UNCHANGED <<CudaGraphExec, kernelArgs, launched>>

(***************************************************************************)
(* Reference counting                                                      *)
(***************************************************************************)
\* the objects a release walks: the buffer's internal count and liveness, the
\* command objects, and whether a deleted object was touched
Heap == [int |-> RefCountInternal, alive |-> alive, cmds |-> Commands,
         uaf |-> FALSE]

\* mutant: the buffer is deleted whatever its internal count
commandBufferDeleteAlways(st) ==
  IF ~st.alive THEN [st EXCEPT !.uaf = TRUE]
  ELSE [st EXCEPT !.int = @ - 1, !.alive = FALSE]

commandBufferReleaseInternal(st) ==
  IF ~st.alive THEN [st EXCEPT !.uaf = TRUE]
  ELSE IF st.int - 1 # 0 THEN [st EXCEPT !.int = @ - 1]
  ELSE [st EXCEPT !.int = 0, !.alive = FALSE]

\* mutant: a destroyed handle keeps its reference on the buffer
commandHandleReleaseKeepingParent(st, Command) ==
  IF ~st.cmds[Command].alive THEN [st EXCEPT !.uaf = TRUE]
  ELSE IF st.cmds[Command].RefCountInternal - 1 # 0
    THEN [st EXCEPT !.cmds[Command].RefCountInternal = @ - 1]
  ELSE [st EXCEPT !.cmds[Command].RefCountInternal = 0,
                  !.cmds[Command].alive = FALSE]

commandHandleReleaseInternal(st, Command) ==
  IF ~st.cmds[Command].alive THEN [st EXCEPT !.uaf = TRUE]
  ELSE IF st.cmds[Command].RefCountInternal - 1 # 0
    THEN [st EXCEPT !.cmds[Command].RefCountInternal = @ - 1]
  ELSE LET parent == commandBufferReleaseInternal(
                       [st EXCEPT !.cmds[Command].RefCountInternal = 0])
       IN [parent EXCEPT !.cmds[Command].alive = FALSE]

\* for (auto Command : hCommandBuffer->CommandHandles) from position i on
RECURSIVE ReleaseCommands(_, _, _)
ReleaseCommands(st, handles, i) ==
  IF i > Len(handles) THEN st
  ELSE IF ~st.alive THEN [st EXCEPT !.uaf = TRUE]
  ELSE ReleaseCommands(commandHandleReleaseInternal(st, handles[i]), handles, i + 1)

\* write a walked heap back
Store(op, in, st) ==
  /\ RefCountInternal' = st.int
  /\ alive' = st.alive
  /\ Commands' = st.cmds
  /\ last' = Call(op, in, IF st.uaf THEN CRASH ELSE SUCCESS, NotWritten,
                  NotWritten)

urCommandBufferRetainExp ==
  /\ BufferUsable
  /\ RefCountInternal' = RefCountInternal + 1
  /\ RefCountExternal' = RefCountExternal + 1
  /\ held' = [held EXCEPT !.buf = @ + 1]
  /\ last' = Call("Retain", <<>>, SUCCESS, NotWritten, NotWritten)
  /\ UNCHANGED <<alive, IsUpdatable, graphVars, CommandHandles, Commands,
                 CudaGraphExec, kernelArgs, launched>>

urCommandBufferReleaseExp ==
  LET st == IF RefCountExternal - 1 = 0
              THEN ReleaseCommands(Heap, CommandHandles, 1)
              ELSE Heap
  IN
  /\ BufferUsable
  /\ RefCountExternal' = RefCountExternal - 1
  /\ Store("Release", <<>>, commandBufferReleaseInternal(st))
  /\ held' = [held EXCEPT !.buf = @ - 1]
  /\ UNCHANGED <<IsUpdatable, graphVars, CommandHandles, CudaGraphExec,
                 kernelArgs, launched>>

\* the caller may pass a command handle only while it holds a reference to it
CommandUsable(hCommand) ==
  /\ hCommand \in 1..Len(Commands)
  /\ Commands[hCommand].alive
  /\ held.cmd[hCommand] > 0

urCommandBufferRetainCommandExp(hCommand) ==
  /\ CommandUsable(hCommand)
  /\ Commands' = [Commands EXCEPT ![hCommand].RefCountExternal = @ + 1,
                                  ![hCommand].RefCountInternal = @ + 1]
  /\ held' = [held EXCEPT !.cmd[hCommand] = @ + 1]
  /\ last' = Call("RetainCommand", [hCommand |-> hCommand], SUCCESS, NotWritten,
                  NotWritten)
  /\ UNCHANGED <<bufferVars, graphVars, CommandHandles, CudaGraphExec,
                 kernelArgs, launched>>

urCommandBufferReleaseCommandExp(hCommand) ==
  LET st == [Heap EXCEPT !.cmds[hCommand].RefCountExternal = @ - 1] IN
  /\ CommandUsable(hCommand)
  /\ Store("ReleaseCommand", [hCommand |-> hCommand],
           commandHandleReleaseInternal(st, hCommand))
  /\ held' = [held EXCEPT !.cmd[hCommand] = @ - 1]
  /\ UNCHANGED <<IsUpdatable, RefCountExternal, graphVars, CommandHandles,
                 CudaGraphExec, kernelArgs, launched>>

(***************************************************************************)
(* Finalize and Enqueue                                                    *)
(***************************************************************************)
\* mutant: a failed instantiation still leaves an executable graph behind
FinalizeStoringOnFailure(backendOk) ==
  /\ BufferUsable
  /\ CudaGraphExec' = [present |-> TRUE, nodes |-> CudaGraph,
                       instance |-> IF backendOk THEN CudaGraphExec.instance + 1
                                    ELSE CudaGraphExec.instance]
  /\ last' = Call("Finalize", <<>>, IF backendOk THEN SUCCESS ELSE UNKNOWN,
                  NotWritten, NotWritten)
  /\ UNCHANGED <<bufferVars, graphVars, commandVars, kernelArgs, launched>>

\* cuGraphInstantiate: the executable graph is a copy of the nodes recorded so
\* far; instance counts the instantiations
urCommandBufferFinalizeExp(backendOk) ==
  /\ BufferUsable
  /\ IF backendOk
       THEN /\ CudaGraphExec' = [present |-> TRUE, nodes |-> CudaGraph,
                                 instance |-> CudaGraphExec.instance + 1]
            /\ last' = Call("Finalize", <<>>, SUCCESS, NotWritten, NotWritten)
            /\ UNCHANGED <<bufferVars, graphVars, commandVars, kernelArgs,
                           launched>>
       ELSE Returns("Finalize", <<>>, UNKNOWN)

\* mutant: a launch uses the executable graph up
EnqueueConsumingGraph(numEventsInWaitList, phEvent, failAt) ==
  /\ BufferUsable
  /\ launched' = [stream |-> <<"wait", "launch">>, nodes |-> CudaGraphExec.nodes,
                  instance |-> CudaGraphExec.instance,
                  waited |-> numEventsInWaitList]
  /\ last' = Call("Enqueue", [numEvents |-> numEventsInWaitList, phEvent |-> phEvent],
                  IF CudaGraphExec.present THEN SUCCESS ELSE BACKEND_ERROR,
                  NotWritten, NotWritten)
  /\ CudaGraphExec' = [CudaGraphExec EXCEPT !.present = FALSE]
  /\ UNCHANGED <<bufferVars, graphVars, commandVars, kernelArgs>>

\* mutant: the caller's event slot is written as soon as the event exists
EnqueueWritingEventEarly(numEventsInWaitList, phEvent, failAt) ==
  LET in == [numEvents |-> numEventsInWaitList, phEvent |-> phEvent]
      fails == failAt # 0 \/ ~CudaGraphExec.present
      done == IF failAt = 1 THEN <<>>
              ELSE <<"wait">> \o (IF phEvent THEN <<"start">> ELSE <<>>)
                     \o (IF fails THEN <<>> ELSE <<"launch">>)
                     \o (IF phEvent /\ ~fails THEN <<"record">> ELSE <<>>)
  IN
  /\ BufferUsable
  /\ launched' = [stream |-> done,
                  nodes |-> IF fails THEN <<>> ELSE CudaGraphExec.nodes,
                  instance |-> IF fails THEN 0 ELSE CudaGraphExec.instance,
                  waited |-> IF Len(done) >= 1 THEN numEventsInWaitList ELSE 0]
  /\ last' = Call("Enqueue", in, IF fails THEN BACKEND_ERROR ELSE SUCCESS,
                  NotWritten, IF phEvent /\ failAt # 1 THEN 1 ELSE NotWritten)
  /\ UNCHANGED <<bufferVars, graphVars, commandVars, CudaGraphExec, kernelArgs>>

\* failAt names the stream operation that fails (0: none): 1 enqueueEventsWait,
\* 2 RetImplEvent->start(), 3 cuGraphLaunch, 4 RetImplEvent->record().
\* cuGraphLaunch of a null executable graph is an error of the engine.
urCommandBufferEnqueueExp(numEventsInWaitList, phEvent, failAt) ==
  LET in == [numEvents |-> numEventsInWaitList, phEvent |-> phEvent]
      steps == <<"wait">> \o (IF phEvent THEN <<"start">> ELSE <<>>)
                 \o <<"launch">> \o (IF phEvent THEN <<"record">> ELSE <<>>)
      fails(step) ==
        \/ step = "wait" /\ failAt = 1
        \/ step = "start" /\ failAt = 2
        \/ step = "launch" /\ (failAt = 3 \/ ~CudaGraphExec.present)
        \/ step = "record" /\ failAt = 4
      bad == {i \in 1..Len(steps) : fails(steps[i])}
      stop == IF bad = {} THEN Len(steps) + 1
              ELSE CHOOSE i \in bad : \A j \in bad : i <= j
      done == SubSeq(steps, 1, stop - 1)
      ran == \E i \in 1..Len(done) : done[i] = "launch"
  IN
  /\ BufferUsable
  /\ launched' = [stream |-> done,
                  nodes |-> IF ran THEN CudaGraphExec.nodes ELSE <<>>,
                  instance |-> IF ran THEN CudaGraphExec.instance ELSE 0,
                  \* enqueueEventsWait takes the whole wait list
                  waited |-> IF Len(done) >= 1 THEN numEventsInWaitList ELSE 0]
  /\ last' = Call("Enqueue", in, IF bad = {} THEN SUCCESS ELSE BACKEND_ERROR,
                  NotWritten,
                  \* *phEvent = RetImplEvent.release()
                  IF bad = {} /\ phEvent THEN 1 ELSE NotWritten)
  /\ UNCHANGED <<bufferVars, graphVars, commandVars, CudaGraphExec, kernelArgs>>

(***************************************************************************)
(* Update of a kernel-launch command                                       *)
(*                                                                         *)
(* An update descriptor d has the fields hNewKernel, newWorkDim,           *)
(* pNewGlobalWorkOffset, pNewGlobalWorkSize, pNewLocalWorkSize (NullPtr or *)
(* a three-entry array) and the three argument lists pNewPointerArgList,   *)
(* pNewMemObjArgList, pNewValueArgList of [argIndex, value] entries.       *)
(***************************************************************************)
\* hNewMemObjArg == nullptr
NullMem == 0 - 3

\* memcmp(LocalWorkSize, Zeros, sizeof(LocalWorkSize)) == 0
isNullLocalSize(Command) == Command.LocalWorkSize = <<0, 0, 0>>

\* mutant: the update-enabled flag is not consulted
UpdateAlwaysEnabled == TRUE

\* CommandBuffer->IsUpdatable, as validateCommandDesc reads it
UpdateEnabled == IsUpdatable

\* mutant: every kernel counts as registered
AnyKernelIsRegistered(Command, hNewKernel) == TRUE

\* Command->ValidKernelHandles.count(UpdateCommandDesc->hNewKernel)
KernelIsRegistered(Command, hNewKernel) == hNewKernel \in Command.ValidKernelHandles

\* mutant: the executable graph is taken to exist
GraphExecNeverNull == FALSE

\* !CommandBuffer->CudaGraphExec
GraphExecIsNull == ~CudaGraphExec.present

validateCommandDesc(Command, d) ==
  LET NewWorkDim == d.newWorkDim
      IsNewLocalSizeNull == d.pNewLocalWorkSize = NullPtr
      IsOriginalLocalSizeNull == isNullLocalSize(Command)
  IN
  IF GraphExecIsNull THEN INVALID_OPERATION
  ELSE IF ~UpdateEnabled THEN INVALID_OPERATION
  ELSE IF NewWorkDim = 0 /\ Command.Kernel # d.hNewKernel THEN INVALID_OPERATION
  ELSE IF NewWorkDim # 0 /\ ~(NewWorkDim > 0) THEN INVALID_WORK_DIMENSION
  ELSE IF NewWorkDim # 0 /\ ~(NewWorkDim < 4) THEN INVALID_WORK_DIMENSION
  ELSE IF /\ NewWorkDim # 0
          /\ NewWorkDim # Command.WorkDim
          /\ Command.Kernel = d.hNewKernel
    THEN INVALID_OPERATION
  ELSE IF /\ NewWorkDim # 0
          /\ d.pNewLocalWorkSize # NullPtr
          /\ d.pNewGlobalWorkSize = NullPtr
    THEN INVALID_OPERATION
  ELSE IF NewWorkDim # 0 /\ (IsNewLocalSizeNull # IsOriginalLocalSizeNull)
    THEN INVALID_OPERATION
  ELSE IF ~KernelIsRegistered(Command, d.hNewKernel) THEN INVALID_VALUE
  ELSE SUCCESS

\* the setKernelArg calls of one update, in the order they are made
\* mutant: a null memory object is bound like any other
ArgCallsBindingNull(d) ==
  d.pNewPointerArgList \o d.pNewMemObjArgList \o d.pNewValueArgList

ArgCalls(d) ==
  d.pNewPointerArgList
    \o [i \in 1..Len(d.pNewMemObjArgList) |->
          [argIndex |-> d.pNewMemObjArgList[i].argIndex,
           value |-> IF d.pNewMemObjArgList[i].value = NullMem
                       THEN Cleared ELSE d.pNewMemObjArgList[i].value]]
    \o d.pNewValueArgList

\* the argument table of a kernel after the first n calls
RECURSIVE ApplyArgs(_, _, _)
ApplyArgs(table, calls, n) ==
  IF n = 0 THEN table
  ELSE [ApplyArgs(table, calls, n - 1) EXCEPT
          ![calls[n].argIndex] = calls[n].value]

\* mutant: a failing setKernelArg undoes the arguments set before it
updateKernelArgumentsRollingBack(args, d, failAt) ==
  LET calls == ArgCalls(d)
      fails == failAt \in 1..Len(calls)
  IN [res |-> IF fails THEN BACKEND_ERROR ELSE SUCCESS,
      args |-> IF fails THEN args
               ELSE [args EXCEPT ![d.hNewKernel] = ApplyArgs(@, calls, Len(calls))]]

\* failAt = 0: every setKernelArg succeeds; failAt = i: the i-th throws
updateKernelArguments(args, d, failAt) ==
  LET calls == ArgCalls(d)
      NewKernel == d.hNewKernel
      fails == failAt \in 1..Len(calls)
      n == IF fails THEN failAt - 1 ELSE Len(calls)
  IN [res |-> IF fails THEN BACKEND_ERROR ELSE SUCCESS,
      args |-> [args EXCEPT ![NewKernel] = ApplyArgs(@, calls, n)]]

\* setGlobalOffset / setGlobalSize / setLocalSize: copy WorkDim entries and
\* zero the rest
setGeometry(Ptr, WorkDim) == Pad3(Read(Ptr, WorkDim), 0)

\* mutant: the update takes a reference on the handle
updateCommandRetaining(Command, d) ==
  [Command EXCEPT !.Kernel = d.hNewKernel, !.RefCountInternal = @ + 1]

\* mutant: a local size the descriptor leaves out is reset
updateCommandResettingLocalSize(Command, d) ==
  LET c1 == [Command EXCEPT !.Kernel = d.hNewKernel]
      c2 == IF d.newWorkDim # 0 THEN [c1 EXCEPT !.WorkDim = d.newWorkDim] ELSE c1
      c3 == IF d.pNewGlobalWorkOffset # NullPtr
              THEN [c2 EXCEPT !.GlobalWorkOffset =
                                 setGeometry(d.pNewGlobalWorkOffset, c2.WorkDim)]
              ELSE c2
      c4 == IF d.pNewGlobalWorkSize # NullPtr
              THEN [c3 EXCEPT !.GlobalWorkSize =
                                 setGeometry(d.pNewGlobalWorkSize, c3.WorkDim)]
              ELSE c3
  IN [c4 EXCEPT !.LocalWorkSize =
                   IF d.pNewLocalWorkSize # NullPtr
                     THEN setGeometry(d.pNewLocalWorkSize, c4.WorkDim)
                     ELSE <<0, 0, 0>>]

updateCommand(Command, d) ==
  LET c1 == [Command EXCEPT !.Kernel = d.hNewKernel]
      c2 == IF d.newWorkDim # 0 THEN [c1 EXCEPT !.WorkDim = d.newWorkDim] ELSE c1
      c3 == IF d.pNewGlobalWorkOffset # NullPtr
              THEN [c2 EXCEPT !.GlobalWorkOffset =
                                 setGeometry(d.pNewGlobalWorkOffset, c2.WorkDim)]
              ELSE c2
      c4 == IF d.pNewGlobalWorkSize # NullPtr
              THEN [c3 EXCEPT !.GlobalWorkSize =
                                 setGeometry(d.pNewGlobalWorkSize, c3.WorkDim)]
              ELSE c3
  IN IF d.pNewLocalWorkSize # NullPtr
       THEN [c4 EXCEPT !.LocalWorkSize =
                          setGeometry(d.pNewLocalWorkSize, c4.WorkDim)]
       ELSE c4

\* cuGraphExecKernelNodeSetParams: only a node of the executable graph can be
\* patched
CanPatch(Node) ==
  /\ CudaGraphExec.present
  /\ Node \in 1..Len(CudaGraphExec.nodes)

\* mutant: the arguments are applied before the descriptor is validated
UpdateApplyingArgumentsFirst(hCommand, d, argFailAt, patchOk) ==
  LET in == [hCommand |-> hCommand, hNewKernel |-> d.hNewKernel,
             newWorkDim |-> d.newWorkDim,
             offsetGiven |-> d.pNewGlobalWorkOffset # NullPtr,
             sizeGiven |-> d.pNewGlobalWorkSize # NullPtr,
             localGiven |-> d.pNewLocalWorkSize # NullPtr,
             numArgs |-> Len(ArgCalls(d)), desc |-> d, failedArg |-> 0]
  IN
  /\ CommandUsable(hCommand)
  /\ kernelArgs' = updateKernelArguments(kernelArgs, d, argFailAt).args
  /\ last' = Call("UpdateKernelLaunch", in,
                  validateCommandDesc(Commands[hCommand], d), NotWritten,
                  NotWritten)
  /\ UNCHANGED <<bufferVars, graphVars, commandVars, CudaGraphExec, launched>>

urCommandBufferUpdateKernelLaunchExp(hCommand, d, argFailAt, patchOk) ==
  LET op == "UpdateKernelLaunch"
      in == [hCommand |-> hCommand, hNewKernel |-> d.hNewKernel,
             newWorkDim |-> d.newWorkDim,
             offsetGiven |-> d.pNewGlobalWorkOffset # NullPtr,
             sizeGiven |-> d.pNewGlobalWorkSize # NullPtr,
             localGiven |-> d.pNewLocalWorkSize # NullPtr,
             numArgs |-> Len(ArgCalls(d)), desc |-> d, failedArg |-> 0]
      valid == validateCommandDesc(Commands[hCommand], d)
      ua == updateKernelArguments(kernelArgs, d, argFailAt)
      cmd == updateCommand(Commands[hCommand], d)
      kp == setKernelParams(cmd.WorkDim, cmd.GlobalWorkOffset, cmd.GlobalWorkSize,
                            IF isNullLocalSize(cmd) THEN NullPtr
                            ELSE cmd.LocalWorkSize)
      Params == [func |-> cmd.Kernel, gridDim |-> kp.BlocksPerGrid,
                 blockDim |-> kp.ThreadsPerBlock,
                 offset |-> cmd.GlobalWorkOffset,
                 kernelParams |-> ua.args[cmd.Kernel]]
      patched == [cmd EXCEPT !.Params = Params]
  IN
  /\ CommandUsable(hCommand)
  /\ IF valid # SUCCESS THEN Returns(op, in, valid)
     ELSE IF ua.res # SUCCESS
       THEN /\ kernelArgs' = ua.args
            \* in.failedArg tells which setKernelArg threw
            /\ last' = Call(op, [in EXCEPT !.failedArg = argFailAt], ua.res,
                            NotWritten, NotWritten)
            /\ UNCHANGED <<bufferVars, graphVars, commandVars, CudaGraphExec,
                           launched>>
     ELSE IF kp.res # SUCCESS
       THEN /\ kernelArgs' = ua.args
            /\ Commands' = [Commands EXCEPT ![hCommand] = cmd]
            /\ last' = Call(op, in, kp.res, NotWritten, NotWritten)
            /\ UNCHANGED <<bufferVars, graphVars, CommandHandles, held,
                           CudaGraphExec, launched>>
     ELSE /\ kernelArgs' = ua.args
          /\ Commands' = [Commands EXCEPT ![hCommand] = patched]
          /\ IF patchOk /\ CanPatch(cmd.Node)
               THEN /\ CudaGraphExec' =
                         [CudaGraphExec EXCEPT !.nodes[cmd.Node].params = Params]
                    /\ last' = Call(op, in, SUCCESS, NotWritten, NotWritten)
               ELSE /\ last' = Call(op, in, BACKEND_ERROR, NotWritten, NotWritten)
                    /\ UNCHANGED CudaGraphExec
          /\ UNCHANGED <<bufferVars, graphVars, CommandHandles, held, launched>>

(***************************************************************************)
(* The caller                                                              *)
(***************************************************************************)
\* the state urCommandBufferCreateExp leaves
Init ==
  /\ alive = TRUE
  /\ IsUpdatable \in BOOLEAN
  /\ RefCountInternal = 1
  /\ RefCountExternal = 1
  /\ NextSyncPoint = 0
  /\ SyncPoints = <<>>
  /\ CudaGraph = <<>>
  /\ CudaGraphExec = [present |-> FALSE, nodes |-> <<>>, instance |-> 0]
  /\ CommandHandles = <<>>
  /\ Commands = <<>>
  /\ kernelArgs = [k \in Kernels |-> [i \in 1..NumArgs |-> 0]]
  /\ held = [buf |-> 1, cmd |-> <<>>, peer |-> 0]
  /\ launched = [stream |-> <<>>, nodes |-> <<>>, instance |-> 0, waited |-> 0]
  /\ last = Idle

\* nothing is running on the stream
NothingLaunched == [stream |-> <<>>, nodes |-> <<>>, instance |-> 0, waited |-> 0]

\* the caller takes the result of the call before it makes the next one; by
\* then the stream has run what the call submitted
ReturnToCaller ==
  /\ last # Idle
  /\ last' = Idle
  /\ launched' = NothingLaunched
  /\ UNCHANGED <<bufferVars, graphVars, commandVars, CudaGraphExec, kernelArgs>>

\* the caller appends while fewer than MaxAppends sync points are minted and
\* the graph holds fewer than MaxAppends nodes
CanAppend ==
  last = Idle /\ NextSyncPoint < MaxAppends /\ Len(CudaGraph) < MaxAppends

\* wait-lists: sync points 0..MaxAppends, of which those not yet minted are
\* unknown to the buffer (MaxAppends is never minted)
SyncPointValues == 0..MaxAppends
WaitLists ==
  {<<>>} \cup {<<s>> : s \in SyncPointValues} \cup {<<0, MaxAppends>>}

Zeros3 == <<0, 0, 0>>
Twos3 == <<2, 2, 2>>

(***************************************************************************)
(* Spec: recording.  Every Append* entry point and Finalize.               *)
(***************************************************************************)
AppendUSMMemcpy ==
  /\ CanAppend
  /\ \E wl \in WaitLists, backendOk \in BOOLEAN :
       urCommandBufferAppendUSMMemcpyExp(0, 4, 4, wl, backendOk)

AppendMemBufferCopy ==
  /\ CanAppend
  /\ \E wl \in WaitLists, backendOk \in BOOLEAN, dstOffset \in {0, 4} :
       urCommandBufferAppendMemBufferCopyExp(0, dstOffset, MemSize, wl, backendOk)

AppendMemBufferCopyRect ==
  /\ CanAppend
  /\ \E wl \in WaitLists, backendOk \in BOOLEAN :
       urCommandBufferAppendMemBufferCopyRectExp(0, 4, 1, wl, backendOk)

AppendMemBufferWrite ==
  /\ CanAppend
  /\ \E wl \in WaitLists, backendOk \in BOOLEAN, offset \in {0, MemSize} :
       urCommandBufferAppendMemBufferWriteExp(offset, 4, 0, wl, backendOk)

AppendMemBufferRead ==
  /\ CanAppend
  /\ \E wl \in WaitLists, backendOk \in BOOLEAN, offset \in {0, MemSize} :
       urCommandBufferAppendMemBufferReadExp(offset, 4, 0, wl, backendOk)

AppendMemBufferWriteRect ==
  /\ CanAppend
  /\ \E wl \in WaitLists, backendOk \in BOOLEAN :
       urCommandBufferAppendMemBufferWriteRectExp(0, 0, 1, wl, backendOk)

AppendMemBufferReadRect ==
  /\ CanAppend
  /\ \E wl \in WaitLists, backendOk \in BOOLEAN :
       urCommandBufferAppendMemBufferReadRectExp(0, 0, 1, wl, backendOk)

AppendUSMPrefetch ==
  /\ CanAppend
  /\ \E wl \in WaitLists, backendOk \in BOOLEAN, Mem \in {0, 4}, Size \in {0, 4},
        Flags \in {0, 1} :
       urCommandBufferAppendUSMPrefetchExp(Mem, Size, Flags, wl, backendOk)

AppendUSMAdvise ==
  /\ CanAppend
  /\ \E wl \in WaitLists, backendOk \in BOOLEAN, Mem \in {0, 4}, Size \in {0, 4},
        Advice \in {0, 1} :
       urCommandBufferAppendUSMAdviseExp(Mem, Size, Advice, wl, backendOk)

\* pattern sizes: none, the single-node sizes, a non-power-of-two, a chain
FillPatternSizes == {0, 1, 2, 3, 4, 8}
\* what a build makes of offset % 0
UBOutcomes == {CRASH, INVALID_SIZE}

AppendMemBufferFill ==
  /\ CanAppend
  /\ \E wl \in WaitLists, patternNull \in BOOLEAN,
        patternSize \in FillPatternSizes, offset \in {0, 1}, size \in {8, 9},
        failAt \in {0, 2}, ub \in UBOutcomes :
       urCommandBufferAppendMemBufferFillExp(patternNull, patternSize, offset,
                                             size, wl, failAt, ub)

AppendUSMFill ==
  /\ CanAppend
  /\ \E wl \in WaitLists, patternNull \in BOOLEAN,
        patternSize \in FillPatternSizes, size \in {8}, failAt \in {0, 2} :
       urCommandBufferAppendUSMFillExp(0, patternNull, patternSize, size, wl,
                                       failAt)

\* global work sizes: no zero, a zero first, a zero in a later dimension
WorkSizes == {Twos3, <<0, 2, 2>>, <<2, 0, 2>>}

AppendKernelLaunch ==
  /\ CanAppend
  /\ \E wl \in WaitLists, sameCtx \in BOOLEAN, workDim \in 0..4,
        gws \in WorkSizes, alts \in {<<>>, <<"K1">>, <<"K2">>},
        phCommand \in BOOLEAN, backendOk \in BOOLEAN, allocOk \in BOOLEAN :
       urCommandBufferAppendKernelLaunchExp("K1", sameCtx, workDim, Zeros3, gws,
                                            NullPtr, alts, wl, phCommand,
                                            backendOk, allocOk, 0)

Finalize ==
  /\ last = Idle
  /\ BufferUsable
  /\ CudaGraphExec.instance < MaxFinalize
  /\ \E backendOk \in BOOLEAN : urCommandBufferFinalizeExp(backendOk)

Next ==
  \/ ReturnToCaller
  \/ AppendUSMMemcpy
  \/ AppendMemBufferCopy
  \/ AppendMemBufferCopyRect
  \/ AppendMemBufferWrite
  \/ AppendMemBufferRead
  \/ AppendMemBufferWriteRect
  \/ AppendMemBufferReadRect
  \/ AppendUSMPrefetch
  \/ AppendUSMAdvise
  \/ AppendMemBufferFill
  \/ AppendUSMFill
  \/ AppendKernelLaunch
  \/ Finalize

Spec == Init /\ [][Next]_vars

(***************************************************************************)
(* SpecRef: ownership.  Kernel-launch appends, which create the command    *)
(* handles, and the four Retain/Release entry points.  The caller passes a *)
(* handle only while it holds a reference to it.                           *)
(***************************************************************************)
RefAppendKernelLaunch ==
  /\ CanAppend
  /\ \E phCommand \in BOOLEAN, wl \in {<<>>, <<0>>}, gws \in {Twos3, Zeros3},
        allocOk \in BOOLEAN :
       urCommandBufferAppendKernelLaunchExp("K1", TRUE, 1, Zeros3, gws, NullPtr,
                                            <<>>, wl, phCommand, TRUE, allocOk, 0)

Retain ==
  /\ last = Idle
  /\ RefCountExternal <= MaxRetain
  /\ urCommandBufferRetainExp

Release ==
  /\ last = Idle
  /\ urCommandBufferReleaseExp

RetainCommand ==
  /\ last = Idle
  /\ \E hCommand \in 1..Len(Commands) :
       /\ Commands[hCommand].RefCountExternal <= MaxRetain
       /\ urCommandBufferRetainCommandExp(hCommand)

ReleaseCommand ==
  /\ last = Idle
  /\ \E hCommand \in 1..Len(Commands) : urCommandBufferReleaseCommandExp(hCommand)

NextRef ==
  \/ ReturnToCaller
  \/ RefAppendKernelLaunch
  \/ Retain
  \/ Release
  \/ RetainCommand
  \/ ReleaseCommand

SpecRef == Init /\ [][NextRef]_vars

(***************************************************************************)
(* SpecUpd: replay.  Kernel-launch appends with alternatives, Finalize,    *)
(* UpdateKernelLaunch over a set of descriptors, and Enqueue.              *)
(***************************************************************************)
UpdAppendKernelLaunch ==
  /\ CanAppend
  /\ \E alts \in {<<>>, <<"K2">>}, pLocalWorkSize \in {NullPtr, <<1, 1, 1>>} :
       urCommandBufferAppendKernelLaunchExp("K1", TRUE, 1, Zeros3, Twos3,
                                            pLocalWorkSize, alts, <<>>, TRUE, TRUE,
                                            TRUE, 0)

\* descriptors without arguments: every kernel with every combination of the
\* geometry fields
GeometryDescs ==
  [hNewKernel : Kernels,
   newWorkDim : {0, 1, 4},
   pNewGlobalWorkOffset : {NullPtr},
   pNewGlobalWorkSize : {NullPtr, <<4, 4, 4>>},
   pNewLocalWorkSize : {NullPtr, <<2, 2, 2>>},
   pNewPointerArgList : {<<>>},
   pNewMemObjArgList : {<<>>},
   pNewValueArgList : {<<>>}]

\* descriptors that set one value argument of the new kernel
ArgumentDescs ==
  [hNewKernel : {"K1", "K2"},
   newWorkDim : {1},
   pNewGlobalWorkOffset : {NullPtr},
   pNewGlobalWorkSize : {NullPtr},
   pNewLocalWorkSize : {NullPtr},
   pNewPointerArgList : {<<>>},
   pNewMemObjArgList : {<<>>},
   pNewValueArgList : {<<[argIndex |-> 1, value |-> 5]>>}]

\* descriptors that ask for another work dimension and nothing else
DimensionDescs ==
  [hNewKernel : {"K1"},
   newWorkDim : {2},
   pNewGlobalWorkOffset : {NullPtr},
   pNewGlobalWorkSize : {NullPtr},
   pNewLocalWorkSize : {NullPtr},
   pNewPointerArgList : {<<>>},
   pNewMemObjArgList : {<<>>},
   pNewValueArgList : {<<>>}]

UpdateDescs == GeometryDescs \cup ArgumentDescs \cup DimensionDescs

\* the caller updates the first MaxUpdated command handles of the buffer
Update ==
  /\ last = Idle
  /\ \E hCommand \in 1..MaxUpdated, d \in UpdateDescs, patchOk \in BOOLEAN :
       /\ hCommand <= Len(Commands)
       /\ urCommandBufferUpdateKernelLaunchExp(hCommand, d, 0, patchOk)

Enqueue ==
  /\ last = Idle
  /\ \E phEvent \in BOOLEAN, failAt \in {0, 3} :
       urCommandBufferEnqueueExp(0, phEvent, failAt)

NextUpd ==
  \/ ReturnToCaller
  \/ UpdAppendKernelLaunch
  \/ Finalize
  \/ Update
  \/ Enqueue

SpecUpd == Init /\ [][NextUpd]_vars

(***************************************************************************)
(* SpecLife: a command handle's whole life.  Kernel-launch appends with    *)
(* alternatives, Finalize, kernel-switching updates, Enqueue and the four  *)
(* Retain/Release entry points.  The caller passes a handle only while it  *)
(* holds a reference to it.                                                *)
(***************************************************************************)
\* descriptors that name a kernel and at most repeat the work dimension
KernelSwitchDescs ==
  [hNewKernel : Kernels,
   newWorkDim : {0, 1},
   pNewGlobalWorkOffset : {NullPtr},
   pNewGlobalWorkSize : {NullPtr},
   pNewLocalWorkSize : {NullPtr},
   pNewPointerArgList : {<<>>},
   pNewMemObjArgList : {<<>>},
   pNewValueArgList : {<<>>}]

LifeUpdate ==
  /\ last = Idle
  /\ \E hCommand \in 1..Len(Commands), d \in KernelSwitchDescs :
       /\ CommandUsable(hCommand)
       /\ urCommandBufferUpdateKernelLaunchExp(hCommand, d, 0, TRUE)

LifeEnqueue ==
  /\ last = Idle
  /\ urCommandBufferEnqueueExp(0, FALSE, 0)

NextLife ==
  \/ ReturnToCaller
  \/ UpdAppendKernelLaunch
  \/ Finalize
  \/ LifeUpdate
  \/ LifeEnqueue
  \/ Retain
  \/ Release
  \/ RetainCommand
  \/ ReleaseCommand

SpecLife == Init /\ [][NextLife]_vars

(***************************************************************************)
(* SpecAgain: repeated updates.  Kernel-launch appends, Finalize, Update,  *)
(* and an Update repeated at once with the descriptor of the call that     *)
(* has just succeeded.                                                     *)
(***************************************************************************)
\* descriptors that give a local work size, an array of zeros included
LocalSizeDescs ==
  [hNewKernel : {"K1", "K2"},
   newWorkDim : {1},
   pNewGlobalWorkOffset : {NullPtr},
   pNewGlobalWorkSize : {<<4, 4, 4>>},
   pNewLocalWorkSize : {<<2, 2, 2>>, <<0, 0, 0>>},
   pNewPointerArgList : {<<>>},
   pNewMemObjArgList : {<<>>},
   pNewValueArgList : {<<>>}]

AgainDescs == LocalSizeDescs \cup KernelSwitchDescs

AgainUpdate ==
  /\ last = Idle
  /\ \E hCommand \in 1..MaxUpdated, d \in AgainDescs, patchOk \in BOOLEAN :
       /\ hCommand <= Len(Commands)
       /\ urCommandBufferUpdateKernelLaunchExp(hCommand, d, 0, patchOk)

\* the caller makes the call that has just succeeded once more
UpdateAgain ==
  /\ last.op = "UpdateKernelLaunch"
  /\ last.res = SUCCESS
  /\ \E patchOk \in BOOLEAN :
       urCommandBufferUpdateKernelLaunchExp(last.in.hCommand, last.in.desc, 0,
                                            patchOk)

NextAgain ==
  \/ ReturnToCaller
  \/ UpdAppendKernelLaunch
  \/ Finalize
  \/ AgainUpdate
  \/ UpdateAgain

SpecAgain == Init /\ [][NextAgain]_vars

(***************************************************************************)
(* SpecFill: fills.  Buffer fills and USM fills with every power-of-two    *)
(* pattern size up to 16, over one and two periods of the pattern.         *)
(***************************************************************************)
\* the pattern sizes of one, two, four, eight and sixteen bytes
PowerOfTwoPatternSizes == {1, 2, 4, 8, 16}

\* the node of a chain the driver refuses: none, the first, the second, the
\* last of an 8-byte pattern
FillFailures == {0, 1, 2, 5}

FillMemBuffer ==
  /\ CanAppend
  /\ \E wl \in {<<>>} \cup {<<s>> : s \in SyncPointValues},
        patternSize \in PowerOfTwoPatternSizes, periods \in {1, 2},
        offsets \in {0, 1}, failAt \in FillFailures :
       urCommandBufferAppendMemBufferFillExp(FALSE, patternSize,
                                             offsets * patternSize,
                                             periods * patternSize, wl, failAt,
                                             CRASH)

FillUSM ==
  /\ CanAppend
  /\ \E wl \in {<<>>} \cup {<<s>> : s \in SyncPointValues},
        patternSize \in PowerOfTwoPatternSizes, periods \in {1, 2},
        failAt \in FillFailures :
       urCommandBufferAppendUSMFillExp(0, FALSE, patternSize,
                                       periods * patternSize, wl, failAt)

NextFill ==
  \/ ReturnToCaller
  \/ FillMemBuffer
  \/ FillUSM

SpecFill == Init /\ [][NextFill]_vars

(***************************************************************************)
(* SpecArgs: argument updates.  Kernel-launch appends, Finalize, and       *)
(* Updates that carry pointer, memory-object and value arguments, any of   *)
(* whose setKernelArg calls may fail.                                      *)
(***************************************************************************)
\* descriptors with one memory-object argument, which may be null, and up to
\* one pointer and one value argument, which name the same slot
ArgListDescs ==
  [hNewKernel : {"K1", "K2"},
   newWorkDim : {1},
   pNewGlobalWorkOffset : {NullPtr},
   pNewGlobalWorkSize : {NullPtr},
   pNewLocalWorkSize : {NullPtr},
   pNewPointerArgList : {<<>>, <<[argIndex |-> 1, value |-> 6]>>},
   pNewMemObjArgList : {<<[argIndex |-> 2, value |-> NullMem]>>,
                        <<[argIndex |-> 2, value |-> 9]>>},
   pNewValueArgList : {<<>>, <<[argIndex |-> 1, value |-> 5]>>}]

\* a kernel launch of K1 that declares K2 as its alternative; this caller
\* records everything before it finalizes
ArgsAppendKernelLaunch ==
  /\ CanAppend
  /\ ~CudaGraphExec.present
  /\ urCommandBufferAppendKernelLaunchExp("K1", TRUE, 1, Zeros3, Twos3, NullPtr,
                                          <<"K2">>, <<>>, TRUE, TRUE, TRUE, 0)

ArgsUpdate ==
  /\ last = Idle
  /\ \E hCommand \in 1..MaxUpdated, d \in ArgListDescs, argFailAt \in 0..3 :
       /\ hCommand <= Len(Commands)
       /\ urCommandBufferUpdateKernelLaunchExp(hCommand, d, argFailAt, TRUE)

\* this caller finalizes until it has a compiled graph
ArgsFinalize ==
  /\ ~CudaGraphExec.present
  /\ Finalize

NextArgs ==
  \/ ReturnToCaller
  \/ ArgsAppendKernelLaunch
  \/ ArgsFinalize
  \/ ArgsUpdate

SpecArgs == Init /\ [][NextArgs]_vars

(***************************************************************************)
(* SpecEnq: submission.  Memory-copy appends, Finalize, and Enqueue calls  *)
(* with and without a wait list and an output event, any of whose stream   *)
(* operations may fail.                                                    *)
(***************************************************************************)
\* the lengths of the wait lists this caller passes
EventCounts == {0, 2}

EnqAppendUSMMemcpy ==
  /\ CanAppend
  /\ urCommandBufferAppendUSMMemcpyExp(0, 4, 4, <<>>, TRUE)

EnqEnqueue ==
  /\ last = Idle
  /\ \E numEventsInWaitList \in EventCounts, phEvent \in BOOLEAN, failAt \in 0..4 :
       urCommandBufferEnqueueExp(numEventsInWaitList, phEvent, failAt)

NextEnq ==
  \/ ReturnToCaller
  \/ EnqAppendUSMMemcpy
  \/ Finalize
  \/ EnqEnqueue

SpecEnq == Init /\ [][NextEnq]_vars

(***************************************************************************)
(* SpecDim: work dimensions.  Kernel launches of one and two dimensions,   *)
(* with and without a local size, and Updates that change the dimension.   *)
(***************************************************************************)
\* what the LocalWorkSize entries the constructor does not write may hold
UninitOutcomes == {0, Junk}

DimAppendKernelLaunch ==
  /\ CanAppend
  /\ ~CudaGraphExec.present
  /\ \E workDim \in {1, 2}, pLocalWorkSize \in {NullPtr, <<1, 1, 1>>},
        uninit \in UninitOutcomes :
       urCommandBufferAppendKernelLaunchExp("K1", TRUE, workDim, Zeros3, Twos3,
                                            pLocalWorkSize, <<"K2">>, <<>>, TRUE,
                                            TRUE, TRUE, uninit)

\* descriptors that switch between K1 and K2 with every combination of work
\* dimension, global size and local size
DimensionSwitchDescs ==
  [hNewKernel : {"K1", "K2"},
   newWorkDim : {0, 1, 2},
   pNewGlobalWorkOffset : {NullPtr},
   pNewGlobalWorkSize : {NullPtr, <<4, 4, 4>>},
   pNewLocalWorkSize : {NullPtr, <<2, 2, 2>>},
   pNewPointerArgList : {<<>>},
   pNewMemObjArgList : {<<>>},
   pNewValueArgList : {<<>>}]

DimUpdate ==
  /\ last = Idle
  /\ \E hCommand \in 1..MaxUpdated, d \in DimensionSwitchDescs :
       /\ hCommand <= Len(Commands)
       /\ urCommandBufferUpdateKernelLaunchExp(hCommand, d, 0, TRUE)

NextDim ==
  \/ ReturnToCaller
  \/ DimAppendKernelLaunch
  \/ ArgsFinalize
  \/ DimUpdate

SpecDim == Init /\ [][NextDim]_vars

(***************************************************************************)
(* SpecConc: two threads release concurrently.  The counters are atomic:   *)
(* a decrement and the test of its result are one step; every other        *)
(* statement of the release functions is a step of its own, and the steps  *)
(* of the two threads interleave.  While the threads run, last.in holds    *)
(* for each thread its call, its position pc, the loop index i and the     *)
(* command handle it is releasing, and the flags uaf (a deleted object was *)
(* read) and twice (a deleted object was deleted again).                   *)
(***************************************************************************)
ConcAppendKernelLaunch ==
  /\ CanAppend
  /\ \E phCommand \in BOOLEAN :
       urCommandBufferAppendKernelLaunchExp("K1", TRUE, 1, Zeros3, Twos3, NullPtr,
                                            <<>>, <<>>, phCommand, TRUE, TRUE, 0)

\* the calls two threads may make at once with the references the caller
\* holds: Release and Release, or Release and ReleaseCommand
ReleaseConcurrently ==
  /\ last = Idle
  /\ alive
  /\ \E hCommand \in 0..Len(Commands) :
       LET first == [call |-> "Release", pc |-> "decExt", i |-> 0, Command |-> 0]
           second == IF hCommand = 0 THEN first
                     ELSE [call |-> "ReleaseCommand", pc |-> "decCmdExt", i |-> 0,
                           Command |-> hCommand]
       IN
       /\ IF hCommand = 0 THEN held.buf >= 2
          ELSE held.buf >= 1 /\ held.cmd[hCommand] >= 1
       /\ held' = IF hCommand = 0 THEN [held EXCEPT !.buf = @ - 2]
                  ELSE [held EXCEPT !.buf = @ - 1, !.cmd[hCommand] = @ - 1]
       /\ last' = Call("ReleaseConcurrently",
                       [threads |-> <<first, second>>, uaf |-> FALSE,
                        twice |-> FALSE],
                       SUCCESS, NotWritten, NotWritten)
  /\ UNCHANGED <<bufferVars, graphVars, CommandHandles, Commands, CudaGraphExec,
                 kernelArgs, launched>>

\* thread t is about to execute the statement pc
At(t, pc) == last.op = "ReleaseConcurrently" /\ last.in.threads[t].pc = pc

\* thread t goes on as next, unless its statement read a deleted object
\* (uaf) or deleted one again (twice), which ends it
Advance(t, next, uaf, twice) ==
  last' = [last EXCEPT
             !.in.threads[t] = IF uaf \/ twice THEN [@ EXCEPT !.pc = "done"]
                               ELSE next,
             !.in.uaf = @ \/ uaf,
             !.in.twice = @ \/ twice]

\* where a thread goes when commandHandleReleaseInternal returns: to the next
\* handle of the loop of Release, or out of ReleaseCommand
AfterCommand(thread) ==
  IF thread.call = "Release"
    THEN [thread EXCEPT !.pc = "loop", !.i = @ + 1, !.Command = 0]
    ELSE [thread EXCEPT !.pc = "done"]

\* if (hCommandBuffer->decrementExternalReferenceCount() == 0)
DecrementExternal ==
  \E t \in 1..2 :
    /\ At(t, "decExt")
    /\ RefCountExternal' = IF alive THEN RefCountExternal - 1 ELSE RefCountExternal
    /\ Advance(t, IF RefCountExternal - 1 = 0
                    THEN [last.in.threads[t] EXCEPT !.pc = "loop", !.i = 1]
                    ELSE [last.in.threads[t] EXCEPT !.pc = "relBuf"],
               ~alive, FALSE)
    /\ UNCHANGED <<alive, IsUpdatable, RefCountInternal, graphVars, commandVars,
                   CudaGraphExec, kernelArgs, launched>>

\* for (auto Command : hCommandBuffer->CommandHandles)
NextCommandHandle ==
  \E t \in 1..2 :
    LET thread == last.in.threads[t] IN
    /\ At(t, "loop")
    /\ Advance(t, IF thread.i > Len(CommandHandles)
                    THEN [thread EXCEPT !.pc = "relBuf"]
                    ELSE [thread EXCEPT !.pc = "decCmdInt",
                                        !.Command = CommandHandles[thread.i]],
               ~alive, FALSE)
    /\ UNCHANGED <<bufferVars, graphVars, commandVars, CudaGraphExec, kernelArgs,
                   launched>>

\* hCommand->decrementExternalReferenceCount()
DecrementCommandExternal ==
  \E t \in 1..2 :
    LET thread == last.in.threads[t]
        live == Commands[thread.Command].alive
    IN
    /\ At(t, "decCmdExt")
    /\ Commands' = IF live
                     THEN [Commands EXCEPT ![thread.Command].RefCountExternal = @ - 1]
                     ELSE Commands
    /\ Advance(t, [thread EXCEPT !.pc = "decCmdInt"], ~live, FALSE)
    /\ UNCHANGED <<bufferVars, graphVars, CommandHandles, held, CudaGraphExec,
                   kernelArgs, launched>>

\* mutant: the handle is torn down whatever its count
DecrementCommandInternalIgnoringCount ==
  \E t \in 1..2 :
    LET thread == last.in.threads[t]
        live == Commands[thread.Command].alive
    IN
    /\ At(t, "decCmdInt")
    /\ Commands' = IF live
                     THEN [Commands EXCEPT ![thread.Command].RefCountInternal = @ - 1]
                     ELSE Commands
    /\ Advance(t, [thread EXCEPT !.pc = "cmdRelBuf"], ~live, FALSE)
    /\ UNCHANGED <<bufferVars, graphVars, CommandHandles, held, CudaGraphExec,
                   kernelArgs, launched>>

\* if (Command->decrementInternalReferenceCount() != 0) return
DecrementCommandInternal ==
  \E t \in 1..2 :
    LET thread == last.in.threads[t]
        live == Commands[thread.Command].alive
    IN
    /\ At(t, "decCmdInt")
    /\ Commands' = IF live
                     THEN [Commands EXCEPT ![thread.Command].RefCountInternal = @ - 1]
                     ELSE Commands
    /\ Advance(t, IF Commands[thread.Command].RefCountInternal - 1 # 0
                    THEN AfterCommand(thread)
                    ELSE [thread EXCEPT !.pc = "cmdRelBuf"],
               ~live, FALSE)
    /\ UNCHANGED <<bufferVars, graphVars, CommandHandles, held, CudaGraphExec,
                   kernelArgs, launched>>

\* commandBufferReleaseInternal(Command->CommandBuffer): the decrement
ReleaseParent ==
  \E t \in 1..2 :
    LET thread == last.in.threads[t] IN
    /\ At(t, "cmdRelBuf")
    /\ RefCountInternal' = IF alive THEN RefCountInternal - 1 ELSE RefCountInternal
    /\ Advance(t, IF RefCountInternal - 1 # 0
                    THEN [thread EXCEPT !.pc = "delCmd"]
                    ELSE [thread EXCEPT !.pc = "cmdDelBuf"],
               ~alive \/ ~Commands[thread.Command].alive, FALSE)
    /\ UNCHANGED <<alive, IsUpdatable, RefCountExternal, graphVars, commandVars,
                   CudaGraphExec, kernelArgs, launched>>

\* commandBufferReleaseInternal(Command->CommandBuffer): delete CommandBuffer
DeleteParent ==
  \E t \in 1..2 :
    /\ At(t, "cmdDelBuf")
    /\ alive' = FALSE
    /\ Advance(t, [last.in.threads[t] EXCEPT !.pc = "delCmd"], FALSE, ~alive)
    /\ UNCHANGED <<IsUpdatable, RefCountInternal, RefCountExternal, graphVars,
                   commandVars, CudaGraphExec, kernelArgs, launched>>

\* delete Command
DeleteCommand ==
  \E t \in 1..2 :
    LET thread == last.in.threads[t] IN
    /\ At(t, "delCmd")
    /\ Commands' = [Commands EXCEPT ![thread.Command].alive = FALSE]
    /\ Advance(t, AfterCommand(thread), FALSE, ~Commands[thread.Command].alive)
    /\ UNCHANGED <<bufferVars, graphVars, CommandHandles, held, CudaGraphExec,
                   kernelArgs, launched>>

\* return commandBufferReleaseInternal(hCommandBuffer): the decrement
DecrementInternal ==
  \E t \in 1..2 :
    LET thread == last.in.threads[t] IN
    /\ At(t, "relBuf")
    /\ RefCountInternal' = IF alive THEN RefCountInternal - 1 ELSE RefCountInternal
    /\ Advance(t, IF RefCountInternal - 1 # 0
                    THEN [thread EXCEPT !.pc = "done"]
                    ELSE [thread EXCEPT !.pc = "delBuf"],
               ~alive, FALSE)
    /\ UNCHANGED <<alive, IsUpdatable, RefCountExternal, graphVars, commandVars,
                   CudaGraphExec, kernelArgs, launched>>

\* return commandBufferReleaseInternal(hCommandBuffer): delete CommandBuffer
DeleteBuffer ==
  \E t \in 1..2 :
    /\ At(t, "delBuf")
    /\ alive' = FALSE
    /\ Advance(t, [last.in.threads[t] EXCEPT !.pc = "done"], FALSE, ~alive)
    /\ UNCHANGED <<IsUpdatable, RefCountInternal, RefCountExternal, graphVars,
                   commandVars, CudaGraphExec, kernelArgs, launched>>

\* both calls have returned
JoinThreads ==
  /\ At(1, "done")
  /\ At(2, "done")
  /\ last' = Idle
  /\ UNCHANGED <<bufferVars, graphVars, commandVars, CudaGraphExec, kernelArgs,
                 launched>>

\* a call of the recording thread returns
ConcReturn ==
  /\ last.op # "ReleaseConcurrently"
  /\ ReturnToCaller

NextConc ==
  \/ ConcReturn
  \/ ConcAppendKernelLaunch
  \/ Retain
  \/ RetainCommand
  \/ ReleaseConcurrently
  \/ DecrementExternal
  \/ NextCommandHandle
  \/ DecrementCommandExternal
  \/ DecrementCommandInternal
  \/ ReleaseParent
  \/ DeleteParent
  \/ DeleteCommand
  \/ DecrementInternal
  \/ DeleteBuffer
  \/ JoinThreads

SpecConc == Init /\ [][NextConc]_vars

(***************************************************************************)
(* SpecCopy: buffer copies with offsets near the top of size_t.            *)
(***************************************************************************)
\* offsets inside the memory object and one that is 4 short of 2^w
CopyOffsets == {0, 4, SizeTMod - 4}

CopyMemBufferCopy ==
  /\ CanAppend
  /\ \E srcOffset \in CopyOffsets, dstOffset \in CopyOffsets, size \in {4, MemSize},
        backendOk \in BOOLEAN :
       urCommandBufferAppendMemBufferCopyExp(srcOffset, dstOffset, size, <<>>,
                                             backendOk)

NextCopy ==
  \/ ReturnToCaller
  \/ CopyMemBufferCopy

SpecCopy == Init /\ [][NextCopy]_vars

(***************************************************************************)
(* SpecPeer: two command buffers.  The caller records into a second        *)
(* command buffer as well; of that buffer only the sync points it has      *)
(* minted matter here (held.peer of them: 0 .. held.peer - 1, since every  *)
(* buffer counts its sync points from 0).  Every sync point the caller     *)
(* passes to this buffer is one the second buffer returned.                *)
(***************************************************************************)
\* a successful append on the second buffer: addSyncPoint there returns its
\* NextSyncPoint and increments it
PeerAppend ==
  /\ last = Idle
  /\ held.peer < MaxAppends
  /\ held' = [held EXCEPT !.peer = @ + 1]
  /\ last' = Call("PeerAppend", <<>>, SUCCESS, held.peer, NotWritten)
  /\ UNCHANGED <<bufferVars, graphVars, CommandHandles, Commands, CudaGraphExec,
                 kernelArgs, launched>>

\* wait-lists made of sync points the second buffer returned
PeerWaitLists == {<<s>> : s \in 0..(held.peer - 1)}

\* appends that name no dependency
PeerAppendUSMMemcpy ==
  /\ CanAppend
  /\ \E backendOk \in BOOLEAN, size \in {4, 8} :
       urCommandBufferAppendUSMMemcpyExp(0, 0, size, <<>>, backendOk)

\* appends that wait for a sync point of the second buffer
PeerAppendUSMMemcpyAfter ==
  /\ CanAppend
  /\ \E wl \in PeerWaitLists, backendOk \in BOOLEAN, size \in {4, 8} :
       urCommandBufferAppendUSMMemcpyExp(0, 0, size, wl, backendOk)

PeerAppendKernelLaunchAfter ==
  /\ CanAppend
  /\ \E wl \in PeerWaitLists, phCommand \in BOOLEAN :
       urCommandBufferAppendKernelLaunchExp("K1", TRUE, 1, Zeros3, Twos3, NullPtr,
                                            <<>>, wl, phCommand, TRUE, TRUE, 0)

NextPeer ==
  \/ ReturnToCaller
  \/ PeerAppend
  \/ PeerAppendUSMMemcpy
  \/ PeerAppendUSMMemcpyAfter
  \/ PeerAppendKernelLaunchAfter

SpecPeer == Init /\ [][NextPeer]_vars

(***************************************************************************)
(* Properties                                                              *)
(*                                                                         *)
(* A step from last = Idle is one API call: the unprimed variables are the *)
(* state the call found, last' holds its arguments and what it returned,   *)
(* the other primed variables the state it left.                           *)
(***************************************************************************)
AppendOps ==
  {"AppendKernelLaunch", "AppendUSMMemcpy", "AppendMemBufferCopy",
   "AppendMemBufferCopyRect", "AppendMemBufferWrite", "AppendMemBufferRead",
   "AppendMemBufferWriteRect", "AppendMemBufferReadRect", "AppendUSMPrefetch",
   "AppendUSMAdvise", "AppendMemBufferFill", "AppendUSMFill"}

Called(op) == last = Idle /\ last'.op = op
AppendCalled == last = Idle /\ last'.op \in AppendOps

\* the wait-list names a sync point the registry SP does not hold
HasUnknownSyncPoint(wl, SP) == \E i \in 1..Len(wl) : wl[i] \notin DOMAIN SP

IsPowerOfTwo(n) == \E k \in 0..SizeBits : n = 2 ^ k

\* the arguments of an append other than its wait-list are those the interface
\* accepts
ArgumentsValid(c) ==
  CASE c.op = "AppendKernelLaunch" ->
         /\ c.in.sameCtx
         /\ c.in.workDim \in 1..3
         /\ \A i \in 1..Len(c.in.alts) : c.in.alts[i] # c.in.hKernel
    [] c.op = "AppendMemBufferCopy" ->
         /\ c.in.size + c.in.srcOffset <= MemSize
         /\ c.in.size + c.in.dstOffset <= MemSize
    [] c.op = "AppendMemBufferFill" ->
         /\ ~c.in.patternNull
         /\ IsPowerOfTwo(c.in.patternSize)
         /\ c.in.offset % c.in.patternSize = 0
         /\ c.in.size % c.in.patternSize = 0
    [] c.op = "AppendUSMFill" ->
         /\ ~c.in.patternNull
         /\ IsPowerOfTwo(c.in.patternSize)
    [] OTHER -> TRUE

\* C1: the k-th successful append returns sync point k-1.  Every successful
\* append returns the current counter value, advances the counter by one and
\* registers the returned sync point to one node of the graph without touching
\* the earlier registrations; every failed append leaves counter and registry
\* as they were (it consumes no sync-point value).
C1_SyncPointsCountSuccessfulAppends ==
  [][AppendCalled =>
       IF last'.res = SUCCESS
         THEN /\ last'.sp = NextSyncPoint
              /\ NextSyncPoint' = NextSyncPoint + 1
              /\ DOMAIN SyncPoints' = DOMAIN SyncPoints \cup {last'.sp}
              /\ SyncPoints'[last'.sp] \in 1..Len(CudaGraph')
              /\ \A s \in DOMAIN SyncPoints : SyncPoints'[s] = SyncPoints[s]
         ELSE /\ NextSyncPoint' = NextSyncPoint
              /\ SyncPoints' = SyncPoints]_vars

\* C2 (as stated): every append whose wait-list holds an unknown sync point
\* fails with InvalidValue and leaves graph, registry and counter unchanged.
C2_UnknownSyncPointAlwaysInvalidValue ==
  [][AppendCalled /\ HasUnknownSyncPoint(last'.in.wl, SyncPoints) =>
       /\ last'.res = INVALID_VALUE
       /\ UNCHANGED <<CudaGraph, SyncPoints, NextSyncPoint>>]_vars

\* C2 (amended): every append whose wait-list holds an unknown sync point
\* fails, adds no node, registers no sync point, writes no sync point and
\* leaves the counter unchanged; the failure is InvalidValue whenever the
\* other arguments are valid (an invalid argument checked before the wait-list
\* is resolved decides the result otherwise).
C2_UnknownSyncPointRejected ==
  [][AppendCalled /\ HasUnknownSyncPoint(last'.in.wl, SyncPoints) =>
       /\ last'.res # SUCCESS
       /\ ArgumentsValid(last') => last'.res = INVALID_VALUE
       /\ last'.sp = NotWritten
       /\ UNCHANGED <<CudaGraph, SyncPoints, NextSyncPoint>>]_vars

\* C2 witness: after one successful append, a kernel-launch append with valid
\* arguments and an unknown sync point in its wait-list was rejected.
C2_Witness ==
  /\ last.op = "AppendKernelLaunch"
  /\ ArgumentsValid(last)
  /\ HasUnknownSyncPoint(last.in.wl, SyncPoints)
  /\ NextSyncPoint > 0
  /\ last.res = INVALID_VALUE

\* C3: the buffer is not destroyed while a command handle derived from it is
\* alive.  A destroyed buffer has no live command handle and the caller holds
\* no reference to any of its handles; and when the Release that dropped the
\* buffer's last external reference has returned while a command handle still
\* has an external reference, the buffer is alive.
C3_BufferOutlivesCommandHandles ==
  /\ ~alive =>
       \A c \in 1..Len(Commands) : ~Commands[c].alive /\ held.cmd[c] = 0
  /\ (/\ last.op = "Release"
      /\ RefCountExternal = 0
      /\ \E c \in 1..Len(Commands) : Commands[c].RefCountExternal > 0) => alive

\* C3 witness: the last external reference to the buffer was released while
\* the caller holds a command handle, and the buffer is still there.
C3_Witness ==
  /\ last.op = "Release"
  /\ RefCountExternal = 0
  /\ \E c \in 1..Len(Commands) : held.cmd[c] > 0 /\ Commands[c].alive
  /\ alive

\* C4: once the caller has released every reference it holds to the buffer and
\* to every command handle handed back to it, the buffer and all of its
\* command handles are destroyed.
C4_AllReleasedAllDestroyed ==
  (/\ held.buf = 0
   /\ \A c \in 1..Len(Commands) : held.cmd[c] = 0) =>
    /\ ~alive
    /\ \A c \in 1..Len(Commands) : ~Commands[c].alive

everythingButLast ==
  <<bufferVars, graphVars, commandVars, CudaGraphExec, kernelArgs, launched>>

\* C5: UpdateKernelLaunch on a command handle of a buffer created
\* non-updatable fails with InvalidOperation for every descriptor, finalized
\* or not, and changes nothing.
C5_NonUpdatableRejectsUpdate ==
  [][Called("UpdateKernelLaunch") /\ ~IsUpdatable =>
       /\ last'.res = INVALID_OPERATION
       /\ UNCHANGED everythingButLast]_vars

\* C5 witness: on a finalized non-updatable buffer an update to a registered
\* alternative kernel with a valid work dimension was rejected.
C5_Witness ==
  /\ last.op = "UpdateKernelLaunch"
  /\ ~IsUpdatable
  /\ CudaGraphExec.present
  /\ last.in.newWorkDim = 1
  /\ last.in.hNewKernel \in Commands[last.in.hCommand].ValidKernelHandles
  /\ last.in.hNewKernel # Commands[last.in.hCommand].Kernel
  /\ last.res = INVALID_OPERATION

\* an update to a kernel outside the handle's valid-kernel set, on a finalized
\* updatable buffer
UnregisteredKernelUpdate ==
  /\ Called("UpdateKernelLaunch")
  /\ IsUpdatable
  /\ CudaGraphExec.present
  /\ last'.in.hNewKernel \notin Commands[last'.in.hCommand].ValidKernelHandles

\* the geometry fields of the descriptor pass the checks made before the
\* kernel is looked up
GeometryFieldsAccepted(c, Command) ==
  /\ c.in.newWorkDim \in 1..3
  /\ ~(c.in.localGiven /\ ~c.in.sizeGiven)
  /\ c.in.localGiven = ~isNullLocalSize(Command)

\* C6 (as stated): on a finalized updatable buffer every update to a kernel
\* outside the valid-kernel set fails with InvalidValue whatever the other
\* descriptor fields are, and changes nothing.
C6_UnregisteredKernelAlwaysInvalidValue ==
  [][UnregisteredKernelUpdate =>
       /\ last'.res = INVALID_VALUE
       /\ UNCHANGED everythingButLast]_vars

\* C6 (amended): on a finalized updatable buffer every update to a kernel
\* outside the valid-kernel set fails and changes nothing (handle, kernel
\* arguments and compiled node are as before); the failure is InvalidValue
\* when the descriptor names a work dimension in 1..3 and its size fields are
\* consistent with the handle, and the error of the geometry check otherwise.
C6_UnregisteredKernelRejected ==
  [][UnregisteredKernelUpdate =>
       /\ last'.res # SUCCESS
       /\ GeometryFieldsAccepted(last', Commands[last'.in.hCommand]) =>
            last'.res = INVALID_VALUE
       /\ UNCHANGED everythingButLast]_vars

\* C6 witness: an update to the unregistered kernel K3 was rejected with
\* InvalidValue on a finalized updatable buffer.
C6_Witness ==
  /\ last.op = "UpdateKernelLaunch"
  /\ IsUpdatable
  /\ CudaGraphExec.present
  /\ last.in.hNewKernel = "K3"
  /\ last.res = INVALID_VALUE

SuccessfulUpdate == Called("UpdateKernelLaunch") /\ last'.res = SUCCESS

\* C7: a successful update stores the new kernel in the handle and patches the
\* compiled node with the handle's parameters (kernel, arguments, geometry);
\* nothing but a successful update changes what the compiled node of a command
\* handle holds; and a successful Enqueue launches the compiled nodes.  So
\* every Enqueue runs what the most recent successful update left.
C7_EnqueueRunsLatestUpdate ==
  [][/\ SuccessfulUpdate =>
          LET h == Commands'[last'.in.hCommand] IN
          /\ h.Kernel = last'.in.hNewKernel
          /\ h.Params.func = h.Kernel
          /\ h.Params.kernelParams = kernelArgs'[h.Kernel]
          /\ CudaGraphExec'.nodes[h.Node].params = h.Params
     /\ ~SuccessfulUpdate =>
          \A c \in 1..Len(Commands) :
            (CudaGraphExec.present /\ Commands[c].Node <= Len(CudaGraphExec.nodes))
              => CudaGraphExec'.nodes[Commands[c].Node].params
                   = CudaGraphExec.nodes[Commands[c].Node].params
     /\ (Called("Enqueue") /\ last'.res = SUCCESS) =>
          launched'.nodes = CudaGraphExec.nodes]_vars

\* a kernel-launch append that declares the primary kernel as an alternative
AlternativeEqualsPrimary ==
  /\ Called("AppendKernelLaunch")
  /\ \E i \in 1..Len(last'.in.alts) : last'.in.alts[i] = last'.in.hKernel

\* C8 (as stated): a kernel-launch append in which an alternative equals the
\* primary kernel fails with InvalidValue and leaves counter, registry, graph,
\* command-handle list and internal reference count unchanged.
C8_AlternativeEqualsPrimaryAlwaysInvalidValue ==
  [][AlternativeEqualsPrimary =>
       /\ last'.res = INVALID_VALUE
       /\ UNCHANGED <<NextSyncPoint, SyncPoints, CudaGraph, CommandHandles,
                      RefCountInternal>>]_vars

\* C8 (amended): such an append fails and leaves counter, registry, graph,
\* command-handle list and internal reference count unchanged; the failure is
\* InvalidValue when the kernel belongs to the buffer's context and the work
\* dimension is in 1..3 (those two checks come first).
C8_AlternativeEqualsPrimaryRejected ==
  [][AlternativeEqualsPrimary =>
       /\ last'.res # SUCCESS
       /\ (last'.in.sameCtx /\ last'.in.workDim \in 1..3) =>
            last'.res = INVALID_VALUE
       /\ UNCHANGED <<NextSyncPoint, SyncPoints, CudaGraph, CommandHandles,
                      RefCountInternal>>]_vars

\* C8 witness: on a buffer that already holds a node, an otherwise valid
\* kernel-launch append naming K1 as its own alternative was rejected.
C8_Witness ==
  /\ last.op = "AppendKernelLaunch"
  /\ last.in.alts = <<last.in.hKernel>>
  /\ last.in.sameCtx
  /\ last.in.workDim \in 1..3
  /\ NextSyncPoint > 0
  /\ last.res = INVALID_VALUE

\* C9: for every work dimension in 1..3 and every global work size whose
\* product over the work dimensions is 0, an otherwise valid kernel-launch
\* append succeeds (unless the graph engine refuses the node or memory runs
\* out), records an empty node (no kernel node) and returns a sync point
\* registered to that node.
C9_ZeroWorkRecordsEmptyNode ==
  [][(/\ Called("AppendKernelLaunch")
      /\ ArgumentsValid(last')
      /\ ~HasUnknownSyncPoint(last'.in.wl, SyncPoints)
      /\ TotalWork(last'.in.workDim, last'.in.gws) = 0
      /\ last'.res \notin {BACKEND_ERROR, OUT_OF_HOST_MEMORY}) =>
       /\ last'.res = SUCCESS
       /\ Len(CudaGraph') = Len(CudaGraph) + 1
       /\ CudaGraph'[Len(CudaGraph')].kind = "empty"
       /\ last'.sp \in DOMAIN SyncPoints'
       /\ SyncPoints'[last'.sp] = Len(CudaGraph')]_vars

\* C10: a buffer fill append whose offset or whose size is not a multiple of
\* the (nonzero) pattern size fails with InvalidSize, adds no node and
\* registers no sync point.
C10_FillRejectsNonMultiples ==
  [][(/\ Called("AppendMemBufferFill")
      /\ last'.in.patternSize > 0
      /\ \/ last'.in.offset % last'.in.patternSize # 0
         \/ last'.in.size % last'.in.patternSize # 0) =>
       /\ last'.res = INVALID_SIZE
       /\ UNCHANGED <<CudaGraph, SyncPoints, NextSyncPoint>>]_vars

\* a fill append (buffer or USM) whose pattern is null or whose pattern size
\* is 0 or not a power of two
InvalidPatternFill ==
  /\ last = Idle
  /\ last'.op \in {"AppendMemBufferFill", "AppendUSMFill"}
  /\ \/ last'.in.patternNull
     \/ ~IsPowerOfTwo(last'.in.patternSize)

\* C11: a buffer fill or USM fill append with a null pattern, a pattern size
\* of 0 or a pattern size that is not a power of two returns InvalidSize and
\* leaves graph, registry and counter as they were, for every offset and size
\* (pattern size 0 included: the validation is well-defined there).
C11_InvalidPatternRejected ==
  [][InvalidPatternFill =>
       /\ last'.res = INVALID_SIZE
       /\ UNCHANGED <<CudaGraph, SyncPoints, NextSyncPoint>>]_vars

\* C12: until a Finalize call has succeeded the compiled-graph handle is
\* null, and every Update made before then fails with InvalidOperation and
\* changes neither the handle, nor any kernel's arguments, nor the graph.
C12_NoUpdateBeforeFinalize ==
  /\ [](CudaGraphExec.instance = 0 => ~CudaGraphExec.present)
  /\ [][(Called("UpdateKernelLaunch") /\ CudaGraphExec.instance = 0) =>
          /\ last'.res = INVALID_OPERATION
          /\ UNCHANGED everythingButLast]_vars

\* C12 witness: on an updatable buffer that no Finalize has compiled, an
\* Update that keeps the handle's kernel was rejected with InvalidOperation.
C12_Witness ==
  /\ last.op = "UpdateKernelLaunch"
  /\ IsUpdatable
  /\ CudaGraphExec.instance = 0
  /\ ~CudaGraphExec.present
  /\ last.in.hNewKernel = Commands[last.in.hCommand].Kernel
  /\ last.res = INVALID_OPERATION

C14_FinalizeCompilesOnce ==
  [][(Called("Finalize") /\ CudaGraphExec.present) =>
       CudaGraphExec' = CudaGraphExec]_vars

\* C15: a command handle is created only by a kernel-launch append on an
\* updatable buffer: on a non-updatable buffer no append leaves a handle or
\* raises the buffer's internal reference count, and no copy, fill, prefetch
\* or advise append adds a handle.
C15_HandlesOnlyOnUpdatableBuffers ==
  [][AppendCalled =>
       /\ ~IsUpdatable =>
            /\ CommandHandles' = <<>>
            /\ RefCountInternal' = RefCountInternal
       /\ last'.op # "AppendKernelLaunch" =>
            UNCHANGED <<CommandHandles, Commands, RefCountInternal>>]_vars

\* the kernels named by an append: the primary and its alternatives
DeclaredKernels(in) == {in.hKernel} \cup {in.alts[i] : i \in 1..Len(in.alts)}

\* C16: a handle's valid-kernel set is exactly the primary kernel plus the
\* alternatives declared at append time, no Update, Enqueue, Retain or
\* Release ever changes it, and the kernel a live handle currently stores is
\* always a member of it.
C16_ValidKernelSetIsFixed ==
  /\ [][(Called("AppendKernelLaunch") /\ Len(Commands') > Len(Commands)) =>
          Commands'[Len(Commands')].ValidKernelHandles = DeclaredKernels(last'.in)]_vars
  /\ [][\A c \in 1..Len(Commands) :
          /\ c <= Len(Commands')
          /\ Commands'[c].ValidKernelHandles = Commands[c].ValidKernelHandles]_vars
  /\ [](\A c \in 1..Len(Commands) :
          Commands[c].alive => Commands[c].Kernel \in Commands[c].ValidKernelHandles)

\* C16 witness: a handle appended with primary K1 and alternative K2, on a
\* buffer retained once more, has been switched to K2 by a successful Update.
C16_Witness ==
  /\ last.op = "UpdateKernelLaunch"
  /\ last.res = SUCCESS
  /\ RefCountExternal = 2
  /\ Commands[last.in.hCommand].Kernel = "K2"
  /\ Commands[last.in.hCommand].ValidKernelHandles = {"K1", "K2"}

\* a kernel-launch append whose work dimension is outside 1..3
BadWorkDimAppend ==
  /\ Called("AppendKernelLaunch")
  /\ last'.in.workDim \notin 1..3

\* C17 (as stated): a kernel-launch append with work dimension 0 or above 3
\* fails with InvalidWorkDimension, adds no node, registers no sync point
\* and creates no handle.
C17_BadWorkDimAlwaysInvalidWorkDimension ==
  [][BadWorkDimAppend =>
       /\ last'.res = INVALID_WORK_DIMENSION
       /\ UNCHANGED <<graphVars, commandVars>>]_vars

\* C17 (amended): a kernel-launch append with work dimension 0 or above 3
\* fails, with InvalidWorkDimension when the kernel belongs to the buffer's
\* context, and adds no node, registers no sync point and creates no handle.
C17_BadWorkDimRejected ==
  [][BadWorkDimAppend =>
       /\ last'.res # SUCCESS
       /\ last'.in.sameCtx => last'.res = INVALID_WORK_DIMENSION
       /\ UNCHANGED <<graphVars, commandVars>>]_vars

\* C17 witness: after one successful append, an append with work dimension 0
\* of a kernel of the buffer's context was refused with InvalidWorkDimension.
C17_Witness ==
  /\ last.op = "AppendKernelLaunch"
  /\ last.in.workDim = 0
  /\ last.in.sameCtx
  /\ last.res = INVALID_WORK_DIMENSION
  /\ Len(CudaGraph) = 1

\* an Update on a finalized updatable buffer that keeps the handle's kernel
\* and asks for a work dimension other than the recorded one
SameKernelOtherWorkDim ==
  /\ Called("UpdateKernelLaunch")
  /\ CudaGraphExec.present
  /\ IsUpdatable
  /\ last'.in.hNewKernel = Commands[last'.in.hCommand].Kernel
  /\ last'.in.newWorkDim # 0
  /\ last'.in.newWorkDim # Commands[last'.in.hCommand].WorkDim

\* C18: on a finalized updatable buffer, an Update that keeps the current
\* kernel but requests a different work dimension fails with
\* InvalidWorkDimension and mutates nothing.
C18_SameKernelOtherWorkDimRejected ==
  [][SameKernelOtherWorkDim =>
       /\ last'.res = INVALID_WORK_DIMENSION
       /\ UNCHANGED everythingButLast]_vars

\* an Update whose local work size is given where the recording had none, or
\* is missing where the recording had one
LocalSizeNullnessDiffers ==
  /\ Called("UpdateKernelLaunch")
  /\ last'.in.localGiven = isNullLocalSize(Commands[last'.in.hCommand])

\* C19: an Update whose local-work-size nullness differs from the original
\* recording fails validation and mutates nothing, whatever its other
\* fields, a new work dimension of 0 included.
C19_LocalSizeNullnessMismatchRejected ==
  [][LocalSizeNullnessDiffers =>
       /\ last'.res # SUCCESS
       /\ UNCHANGED everythingButLast]_vars

\* a buffer copy, read, write or fill whose region ends beyond the memory
\* object it addresses
RegionExceedsBuffer ==
  /\ last = Idle
  /\ \/ /\ last'.op = "AppendMemBufferCopy"
        /\ \/ last'.in.srcOffset + last'.in.size > MemSize
           \/ last'.in.dstOffset + last'.in.size > MemSize
     \/ /\ last'.op \in {"AppendMemBufferRead", "AppendMemBufferWrite",
                         "AppendMemBufferFill"}
        /\ last'.in.offset + last'.in.size > MemSize

\* C20: every buffer copy, read, write or fill whose offset plus size
\* exceeds the allocated size of a memory object fails with InvalidSize,
\* adds no node and registers no sync point (calls that the driver or the
\* wait-list lookup refused, or that did not return, are left aside).
C20_RegionBeyondBufferRejected ==
  [][(RegionExceedsBuffer /\ last'.res \notin {BACKEND_ERROR, INVALID_VALUE, CRASH}) =>
       /\ last'.res = INVALID_SIZE
       /\ UNCHANGED graphVars]_vars

\* an append on this buffer whose wait-list names a sync point that the
\* second command buffer minted
WaitsForPeerSyncPoint ==
  /\ AppendCalled
  /\ \E i \in 1..Len(last'.in.wl) : last'.in.wl[i] \in 0..(held.peer - 1)

\* C21: sync points are buffer-scoped: an append on this buffer whose
\* wait-list names a sync point minted by another buffer fails with
\* InvalidValue and adds no node, so no dependency on a node of this buffer
\* arises that the caller did not name (calls the driver refused are left
\* aside).
C21_PeerSyncPointRejected ==
  [][(WaitsForPeerSyncPoint /\ last'.res # BACKEND_ERROR) =>
       /\ last'.res = INVALID_VALUE
       /\ UNCHANGED graphVars]_vars

\* C22: once a Finalize has succeeded, every Enqueue leaves the buffer's
\* sync points, graph, command handles, reference counts and compiled-graph
\* handle unchanged, so that the next Enqueue finds the same compiled graph
\* and validation of every Update descriptor on every handle gives the same
\* answer as before the Enqueue.
C22_EnqueueIsRepeatable ==
  [][(Called("Enqueue") /\ CudaGraphExec.instance >= 1) =>
       /\ UNCHANGED <<bufferVars, graphVars, commandVars, CudaGraphExec, kernelArgs>>
       /\ \A c \in 1..Len(Commands), d \in UpdateDescs :
            validateCommandDesc(Commands[c], d)' = validateCommandDesc(Commands[c], d)]_vars

\* C22 witness: on a finalized buffer with a command handle, an Enqueue that
\* asked for an output event has succeeded and launched the compiled graph.
C22_Witness ==
  /\ last.op = "Enqueue"
  /\ last.res = SUCCESS
  /\ last.cmd = 1
  /\ CudaGraphExec.instance = 1
  /\ Len(Commands) > 0
  /\ launched.nodes = CudaGraphExec.nodes
  /\ launched.nodes # <<>>

\* an Update that repeats, at once and with the same handle and descriptor,
\* an Update that has just succeeded
UpdateRepeated ==
  /\ last.op = "UpdateKernelLaunch"
  /\ last.res = SUCCESS
  /\ last'.op = "UpdateKernelLaunch"
  /\ last'.in = last.in

\* C23: Update is idempotent: when an Update with descriptor D has succeeded
\* on a handle, repeating it at once with the same D succeeds as well and
\* leaves the handle's kernel and geometry, the kernel arguments and the
\* parameters of the compiled node as the first application left them
\* (repeats the driver refused are left aside).
C23_UpdateIsIdempotent ==
  [][(UpdateRepeated /\ last'.res # BACKEND_ERROR) =>
       /\ last'.res = SUCCESS
       /\ UNCHANGED <<Commands, kernelArgs, CudaGraphExec>>]_vars

\* a USMPrefetch or USMAdvise append that succeeded
HintAppended ==
  /\ last = Idle
  /\ last'.op \in {"AppendUSMPrefetch", "AppendUSMAdvise"}
  /\ last'.res = SUCCESS

\* C24: a successful USMPrefetch or USMAdvise append adds exactly one empty
\* node that depends on the nodes of the wait-list, mints one sync point for
\* it and changes nothing else; the state it leaves is given by the state
\* before and the wait-list alone, so two calls that differ only in memory
\* pointer, size or flags leave the same state.
C24_HintsAreBarriers ==
  [][HintAppended =>
       /\ CudaGraph' =
            Append(CudaGraph,
                   GraphNode("empty",
                             [i \in 1..Len(last'.in.wl) |-> SyncPoints[last'.in.wl[i]]],
                             <<>>))
       /\ DOMAIN SyncPoints' = DOMAIN SyncPoints \cup {NextSyncPoint}
       /\ NextSyncPoint \notin DOMAIN SyncPoints
       /\ SyncPoints'[NextSyncPoint] = Len(CudaGraph')
       /\ \A s \in DOMAIN SyncPoints : SyncPoints'[s] = SyncPoints[s]
       /\ NextSyncPoint' = NextSyncPoint + 1
       /\ last' = Call(last'.op, [wl |-> last'.in.wl], SUCCESS, NextSyncPoint,
                       NotWritten)
       /\ UNCHANGED <<bufferVars, commandVars, CudaGraphExec, kernelArgs,
                      launched>>]_vars

\* C24 witness: a USMAdvise append that waits for sync point 0 has added an
\* empty node behind the node of sync point 0 and returned sync point 1.
C24_Witness ==
  /\ last.op = "AppendUSMAdvise"
  /\ last.res = SUCCESS
  /\ last.in.wl = <<0>>
  /\ last.sp = 1
  /\ Len(CudaGraph) = 2
  /\ CudaGraph[2] = GraphNode("empty", <<SyncPoints[0]>>, <<>>)
  /\ SyncPoints[1] = 2

\* C25: an Append* call that returns a non-success result, whatever the
\* cause, leaves the sync-point registry and the next-sync-point counter as
\* they were before the call.
C25_FailedAppendRegistersNothing ==
  [][(AppendCalled /\ last'.res # SUCCESS) =>
       UNCHANGED <<SyncPoints, NextSyncPoint>>]_vars

\* a buffer fill or USM fill that succeeded
FillAppended ==
  /\ last = Idle
  /\ last'.op \in {"AppendMemBufferFill", "AppendUSMFill"}
  /\ last'.res = SUCCESS

BlankMemory == [a \in Addresses |-> 0]

\* C27: for every power-of-two pattern size P (1, 2, 4, 8, 16) and every
\* region size that is a multiple of P, running the set nodes a fill append
\* recorded, in dependency order, leaves byte i of the region equal to
\* pattern byte i mod P and changes no byte outside the region.
C27_FillWritesPattern ==
  [][(FillAppended /\ last'.in.size % last'.in.patternSize = 0) =>
       LET P == last'.in.patternSize
           dst == last'.in.offset
           nodes == SubSeq(CudaGraph', Len(CudaGraph) + 1, Len(CudaGraph'))
           mem == ExecNodes(BlankMemory, nodes, Len(nodes))
       IN \A a \in Addresses :
            mem[a] = IF a \in dst..(dst + last'.in.size - 1)
                       THEN PatternBytes(P)[((a - dst) % P) + 1]
                       ELSE BlankMemory[a]]_vars

\* C27 witness: a buffer fill of two periods of a 16-byte pattern at offset
\* 16 has recorded its chain of thirteen nodes.
C27_Witness ==
  /\ last.op = "AppendMemBufferFill"
  /\ last.res = SUCCESS
  /\ last.in.patternSize = 16
  /\ last.in.offset = 16
  /\ last.in.size = 32
  /\ Len(CudaGraph) = 13

\* a fill append in which the driver refused a node of the chain
FillChainBroken ==
  /\ last = Idle
  /\ last'.op \in {"AppendMemBufferFill", "AppendUSMFill"}
  /\ last'.in.failed >= 1

\* C28: when adding the k-th node of a fill chain fails, the append returns
\* the backend error, the k-1 nodes added before stay in the graph, no sync
\* point is registered and the next-sync-point counter is unchanged.
C28_BrokenChainStays ==
  [][FillChainBroken =>
       LET old == Len(CudaGraph)
           new == Len(CudaGraph')
           k == last'.in.failed
           wl == last'.in.wl
       IN
       /\ last'.res = BACKEND_ERROR
       /\ new - old = k - 1
       /\ SubSeq(CudaGraph', 1, old) = CudaGraph
       /\ \A n \in (old + 1)..new : CudaGraph'[n].kind = "memset"
       /\ new > old =>
            CudaGraph'[old + 1].deps = [i \in 1..Len(wl) |-> SyncPoints[wl[i]]]
       /\ \A n \in (old + 2)..new : CudaGraph'[n].deps = <<n - 1>>
       /\ UNCHANGED <<SyncPoints, NextSyncPoint>>
       /\ last'.sp = NotWritten]_vars

\* C28 witness: the fifth and last node of the chain of an 8-byte pattern
\* was refused; the four nodes added before it are in the graph and no sync
\* point was minted.
C28_Witness ==
  /\ last.op = "AppendMemBufferFill"
  /\ last.res = BACKEND_ERROR
  /\ last.in.patternSize = 8
  /\ last.in.failed = 5
  /\ Len(CudaGraph) = 4
  /\ CudaGraph[4].deps = <<3>>
  /\ NextSyncPoint = 0
  /\ SyncPoints = <<>>

\* an Update whose descriptor validateCommandDesc rejects
UpdateFailsValidation ==
  /\ Called("UpdateKernelLaunch")
  /\ validateCommandDesc(Commands[last'.in.hCommand], last'.in.desc) # SUCCESS

\* C29: an Update rejected by validation returns the result of the
\* validation and changes nothing: no argument slot of any kernel, no field
\* of a command handle, no parameter of the compiled graph.
C29_RejectedUpdateChangesNothing ==
  [][UpdateFailsValidation =>
       /\ last'.res = validateCommandDesc(Commands[last'.in.hCommand], last'.in.desc)
       /\ UNCHANGED everythingButLast]_vars

\* C29 witness: on a finalized updatable buffer an Update that carries an
\* argument for a kernel outside the handle's valid set was rejected, and
\* the argument slots of that kernel are as they were initially.
C29_Witness ==
  /\ last.op = "UpdateKernelLaunch"
  /\ last.res = INVALID_VALUE
  /\ last.in.numArgs = 1
  /\ IsUpdatable
  /\ CudaGraphExec.present
  /\ last.in.hNewKernel \notin Commands[last.in.hCommand].ValidKernelHandles
  /\ kernelArgs[last.in.hNewKernel] = [i \in 1..NumArgs |-> 0]

\* kernel, work dimension, offset and sizes a command handle stores
StoredLaunch(Command) ==
  <<Command.Kernel, Command.WorkDim, Command.GlobalWorkOffset,
    Command.GlobalWorkSize, Command.LocalWorkSize>>

\* C30: when an Update call fails, at validation, while the node parameters
\* are recomputed or while the compiled graph is patched, the kernel, work
\* dimension, offset and sizes stored in the command handle are the same as
\* before the call, so that they are those last pushed into the compiled
\* graph node.
C30_FailedUpdateKeepsHandle ==
  [][(Called("UpdateKernelLaunch") /\ last'.res # SUCCESS) =>
       StoredLaunch(Commands'[last'.in.hCommand])
         = StoredLaunch(Commands[last'.in.hCommand])]_vars

\* the value slot s of a kernel holds after the first n setKernelArg calls of
\* descriptor d, when it held old before the update
SlotAfter(d, n, s, old) ==
  LET calls == ArgCalls(d)
      hits == {i \in 1..n : calls[i].argIndex = s}
  IN IF hits = {} THEN old
     ELSE calls[CHOOSE i \in hits : \A j \in hits : j <= i].value

\* an Update in which a setKernelArg call failed
ArgumentFailed ==
  /\ Called("UpdateKernelLaunch")
  /\ last'.in.failedArg >= 1

\* C31: when applying the i-th argument of an Update fails, the call returns
\* that error, the i-1 arguments applied before it stay set on the new
\* kernel, and the command handles and the compiled graph are unchanged.
C31_FailedArgumentKeepsEarlierOnes ==
  [][ArgumentFailed =>
       LET d == last'.in.desc
           i == last'.in.failedArg
       IN
       /\ last'.res = BACKEND_ERROR
       /\ \A s \in 1..NumArgs :
            kernelArgs'[d.hNewKernel][s] =
              SlotAfter(d, i - 1, s, kernelArgs[d.hNewKernel][s])
       /\ \A k \in Kernels \ {d.hNewKernel} : kernelArgs'[k] = kernelArgs[k]
       /\ UNCHANGED <<bufferVars, graphVars, commandVars, CudaGraphExec, launched>>]_vars

\* C31 witness: the third argument of an Update failed after the pointer
\* argument for slot 1 and the cleared memory object for slot 2 were set on
\* the new kernel K2, which the handle does not store.
C31_Witness ==
  /\ last.op = "UpdateKernelLaunch"
  /\ last.in.failedArg = 3
  /\ last.in.hNewKernel = "K2"
  /\ last.res = BACKEND_ERROR
  /\ kernelArgs["K2"][1] = 6
  /\ kernelArgs["K2"][2] = Cleared
  /\ Commands[last.in.hCommand].Kernel = "K1"

\* the slots a list of argument descriptors names
SlotsOf(list) == {list[i].argIndex : i \in 1..Len(list)}

\* an Update that replaces the handle's kernel by another one
KernelSubstituted ==
  /\ Called("UpdateKernelLaunch")
  /\ last'.res = SUCCESS
  /\ last'.in.hNewKernel # Commands[last'.in.hCommand].Kernel

\* C32: an Update that substitutes another kernel sets every pointer,
\* memory-object and value argument of the descriptor on the new kernel (a
\* later list wins a slot named twice), clears the slot of a null memory
\* object, and leaves the argument table of the previous kernel unchanged.
C32_ArgumentsGoToTheNewKernel ==
  [][KernelSubstituted =>
       LET d == last'.in.desc
           new == kernelArgs'[d.hNewKernel]
           old == Commands[last'.in.hCommand].Kernel
           ptrs == d.pNewPointerArgList
           mems == d.pNewMemObjArgList
           vals == d.pNewValueArgList
       IN
       /\ Commands'[last'.in.hCommand].Kernel = d.hNewKernel
       /\ \A i \in 1..Len(vals) : new[vals[i].argIndex] = vals[i].value
       /\ \A i \in 1..Len(mems) :
            mems[i].argIndex \notin SlotsOf(vals) =>
              new[mems[i].argIndex] =
                IF mems[i].value = NullMem THEN Cleared ELSE mems[i].value
       /\ \A i \in 1..Len(ptrs) :
            ptrs[i].argIndex \notin SlotsOf(mems) \cup SlotsOf(vals) =>
              new[ptrs[i].argIndex] = ptrs[i].value
       /\ kernelArgs'[old] = kernelArgs[old]]_vars

\* C32 witness: an Update from K1 to K2 with a pointer argument for slot 1 and
\* a null memory object for slot 2 has succeeded; K2 holds the pointer and a
\* cleared slot.
C32_Witness ==
  /\ last.op = "UpdateKernelLaunch"
  /\ last.res = SUCCESS
  /\ last.in.hNewKernel = "K2"
  /\ Len(last.in.desc.pNewPointerArgList) = 1
  /\ last.in.desc.pNewValueArgList = <<>>
  /\ last.in.desc.pNewMemObjArgList[1].value = NullMem
  /\ kernelArgs["K2"][1] = 6
  /\ kernelArgs["K2"][2] = Cleared
  /\ Commands[last.in.hCommand].Kernel = "K2"

\* the nodes of the recorded graph with their dependency edges
NodesAndEdges(graph) == [i \in 1..Len(graph) |-> [kind |-> graph[i].kind, deps |-> graph[i].deps]]

\* the reference counts of the command handles
HandleRefCounts(commands) ==
  [i \in 1..Len(commands) |->
     <<commands[i].RefCountInternal, commands[i].RefCountExternal>>]

\* C33: an Update, whatever it returns, registers no sync point and leaves
\* the next-sync-point counter, the sync-point map, the nodes and edges of
\* the recorded graph, the list of command handles and every reference count
\* of the buffer and of the handles unchanged.
C33_UpdateRecordsNothing ==
  [][Called("UpdateKernelLaunch") =>
       /\ last'.sp = NotWritten
       /\ NextSyncPoint' = NextSyncPoint
       /\ SyncPoints' = SyncPoints
       /\ NodesAndEdges(CudaGraph') = NodesAndEdges(CudaGraph)
       /\ CommandHandles' = CommandHandles
       /\ RefCountInternal' = RefCountInternal
       /\ RefCountExternal' = RefCountExternal
       /\ HandleRefCounts(Commands') = HandleRefCounts(Commands)]_vars

\* C33 witness: an Update that changed the handle's kernel has returned an
\* error from the graph engine, on a buffer with two recorded nodes, two sync
\* points and two command handles.
C33_Witness ==
  /\ last.op = "UpdateKernelLaunch"
  /\ last.res = BACKEND_ERROR
  /\ Commands[last.in.hCommand].Kernel = "K2"
  /\ Len(CudaGraph) = 2
  /\ NextSyncPoint = 2
  /\ Len(CommandHandles) = 2

\* an Update that has succeeded
UpdateSucceeded ==
  /\ Called("UpdateKernelLaunch")
  /\ last'.res = SUCCESS

\* C34: after a successful Update the handle stores the descriptor's kernel,
\* and each of work dimension, global offset, global size and local size has
\* its previous value when the descriptor leaves it out (0 or null) and the
\* descriptor's value otherwise.
C34_UnspecifiedFieldsAreKept ==
  [][UpdateSucceeded =>
       LET d == last'.in.desc
           before == Commands[last'.in.hCommand]
           after == Commands'[last'.in.hCommand]
           given(Ptr) == [i \in 1..3 |-> IF i <= after.WorkDim THEN Ptr[i] ELSE 0]
       IN
       /\ after.Kernel = d.hNewKernel
       /\ after.WorkDim =
            IF d.newWorkDim = 0 THEN before.WorkDim ELSE d.newWorkDim
       /\ after.GlobalWorkOffset =
            IF d.pNewGlobalWorkOffset = NullPtr THEN before.GlobalWorkOffset
            ELSE given(d.pNewGlobalWorkOffset)
       /\ after.GlobalWorkSize =
            IF d.pNewGlobalWorkSize = NullPtr THEN before.GlobalWorkSize
            ELSE given(d.pNewGlobalWorkSize)
       /\ after.LocalWorkSize =
            IF d.pNewLocalWorkSize = NullPtr THEN before.LocalWorkSize
            ELSE given(d.pNewLocalWorkSize)]_vars

\* C34 witness: a successful Update that names no work dimension and no local
\* size but a new global size, on a handle created with a local size: the
\* handle keeps work dimension 1 and local size 1 and stores global size 4.
C34_Witness ==
  /\ last.op = "UpdateKernelLaunch"
  /\ last.res = SUCCESS
  /\ last.in.newWorkDim = 0
  /\ last.in.sizeGiven
  /\ ~last.in.localGiven
  /\ Commands[last.in.hCommand].WorkDim = 1
  /\ Commands[last.in.hCommand].GlobalWorkSize = <<4, 0, 0>>
  /\ Commands[last.in.hCommand].LocalWorkSize = <<1, 0, 0>>

\* the positions of a stream operation among the operations a call submitted
Positions(stream, step) == {i \in 1..Len(stream) : stream[i] = step}

\* every occurrence of step a comes before every occurrence of step b
Precedes(stream, a, b) ==
  \A i \in Positions(stream, a), j \in Positions(stream, b) : i < j

\* C35: in every Enqueue the wait on the whole wait list is on the stream
\* before the graph launch; a requested output event is started before the
\* launch and recorded after it; and a call in which a step fails returns
\* the error, submits nothing after the failed step and leaves the caller's
\* event slot unwritten.
C35_EnqueueOrdersItsSteps ==
  [][Called("Enqueue") =>
       LET stream == launched'.stream
           launches == Positions(stream, "launch")
       IN
       /\ launches # {} =>
            /\ Positions(stream, "wait") # {}
            /\ Precedes(stream, "wait", "launch")
            /\ launched'.waited = last'.in.numEvents
       /\ last'.in.phEvent /\ launches # {} =>
            /\ Positions(stream, "start") # {}
            /\ Precedes(stream, "start", "launch")
       /\ Precedes(stream, "launch", "record")
       /\ Positions(stream, "record") # {} => launches # {}
       /\ ~last'.in.phEvent =>
            Positions(stream, "start") \cup Positions(stream, "record") = {}
       /\ last'.res = SUCCESS =>
            /\ launches # {}
            /\ last'.in.phEvent => Positions(stream, "record") # {}
            /\ last'.cmd = IF last'.in.phEvent THEN 1 ELSE NotWritten
       /\ last'.res # SUCCESS => last'.cmd = NotWritten]_vars

\* C35 witness: an Enqueue with two events to wait for and an output event
\* has launched the graph and then failed to record the event; the slot is
\* unwritten.
C35_Witness ==
  /\ last.op = "Enqueue"
  /\ last.in.numEvents = 2
  /\ last.in.phEvent
  /\ last.res = BACKEND_ERROR
  /\ launched.stream = <<"wait", "start", "launch">>
  /\ launched.waited = 2
  /\ last.cmd = NotWritten

\* the entries of a handle's geometry arrays at the indices WorkDim..2 (here
\* WorkDim+1..3) are zero
TailIsZero(Command) ==
  \A i \in (Command.WorkDim + 1)..3 :
    /\ Command.GlobalWorkOffset[i] = 0
    /\ Command.GlobalWorkSize[i] = 0
    /\ Command.LocalWorkSize[i] = 0

LiveCommands(commands) == {c \in 1..Len(commands) : commands[c].alive}

\* the internal count of a live buffer is its external count plus the number
\* of its live command handles
CountsBalance ==
  alive => RefCountInternal = RefCountExternal + Cardinality(LiveCommands(Commands))

\* how the calls move the two counts of a buffer that stays alive
CountsMoveTogether ==
  /\ Called("Retain") =>
       /\ RefCountInternal' = RefCountInternal + 1
       /\ RefCountExternal' = RefCountExternal + 1
  /\ Called("Release") =>
       /\ RefCountExternal' = RefCountExternal - 1
       /\ alive' =>
            RefCountInternal' = RefCountInternal - 1
              - Cardinality(LiveCommands(Commands) \ LiveCommands(Commands'))
  /\ Len(Commands') = Len(Commands) + 1 =>
       /\ Called("AppendKernelLaunch")
       /\ RefCountInternal' = RefCountInternal + 1
       /\ RefCountExternal' = RefCountExternal
       /\ LiveCommands(Commands') = LiveCommands(Commands) \cup {Len(Commands')}
  /\ Called("ReleaseCommand") /\ alive' =>
       /\ RefCountExternal' = RefCountExternal
       /\ RefCountInternal' = RefCountInternal
            - Cardinality(LiveCommands(Commands) \ LiveCommands(Commands'))
       /\ LiveCommands(Commands) \ LiveCommands(Commands') \subseteq {last'.in.hCommand}
  /\ Len(Commands') = Len(Commands) =>
       LiveCommands(Commands') \subseteq LiveCommands(Commands)

\* C37: for callers that release only references they hold, a live buffer's
\* internal count is its external count plus the number of its command
\* handles not yet destroyed: both start at 1, Retain and Release move both
\* by one, creating a handle raises the internal count alone by one, and each
\* destroyed handle lowers it by one, once (a destroyed handle never comes
\* back).
C37_InternalIsExternalPlusHandles ==
  /\ (RefCountInternal = 1 /\ RefCountExternal = 1)
  /\ []CountsBalance
  /\ [][CountsMoveTogether]_vars

\* C37 witness: the caller released the buffer's last external reference and
\* then one of two command handles; the buffer is alive with external count 0
\* and internal count 1 for the handle that is left.
C37_Witness ==
  /\ last.op = "ReleaseCommand"
  /\ alive
  /\ RefCountExternal = 0
  /\ RefCountInternal = 1
  /\ Len(Commands) = 2
  /\ Cardinality(LiveCommands(Commands)) = 1

\* both concurrent calls have run to their end
BothReturned ==
  /\ last.op = "ReleaseConcurrently"
  /\ \A t \in 1..2 : last.in.threads[t].pc = "done"

\* C38: while two threads release references the caller holds (two external
\* references to the buffer, or one to the buffer and one to a command
\* handle), in every interleaving no deleted object is read and none is
\* deleted twice; and when both calls have returned, the buffer and every
\* command handle is deleted if and only if its internal count has reached
\* zero, which is the case for all of them when no external reference is
\* left.
C38_ConcurrentReleasesAreSafe ==
  last.op = "ReleaseConcurrently" =>
    /\ ~last.in.uaf
    /\ ~last.in.twice
    /\ BothReturned =>
         /\ alive <=> RefCountInternal > 0
         /\ \A c \in 1..Len(Commands) :
              Commands[c].alive <=> Commands[c].RefCountInternal > 0
         /\ CountsBalance
         /\ (/\ RefCountExternal = 0
             /\ \A c \in 1..Len(Commands) : Commands[c].RefCountExternal = 0)
              => ~alive /\ LiveCommands(Commands) = {}

\* C38 witness: one thread released the buffer's last external reference
\* while the other released the caller's reference to one of two command
\* handles, after the caller had released the other handle the same way;
\* the buffer and both handles are deleted.
C38_Witness ==
  /\ BothReturned
  /\ last.in.threads[2].call = "ReleaseCommand"
  /\ Len(Commands) = 2
  /\ ~alive
  /\ LiveCommands(Commands) = {}

\* C38 second case: two threads each released one of the two external
\* references to a buffer without command handles; the buffer is deleted.
C38_WitnessTwoReleases ==
  /\ BothReturned
  /\ last.in.threads[2].call = "Release"
  /\ ~alive
  /\ RefCountExternal = 0

\* a USM memcpy append on a buffer that holds a compiled graph
AppendAfterFinalize ==
  /\ Called("AppendUSMMemcpy")
  /\ CudaGraphExec.present

\* C39: an append issued after a successful Finalize returns success, adds a
\* node to the recorded graph and mints the next sync point, and leaves the
\* compiled graph unchanged; the nodes appended after the compiled graph was
\* stored never become part of it, and every Enqueue executes the nodes of
\* the compiled graph, so it executes none of them.
C39_AppendAfterFinalizeIsNotExecuted ==
  /\ [][AppendAfterFinalize =>
          /\ last'.res = SUCCESS
          /\ Len(CudaGraph') = Len(CudaGraph) + 1
          /\ last'.sp = NextSyncPoint
          /\ NextSyncPoint' = NextSyncPoint + 1
          /\ SyncPoints'[NextSyncPoint] = Len(CudaGraph')
          /\ CudaGraphExec' = CudaGraphExec]_vars
  /\ [][CudaGraphExec.present => CudaGraphExec'.nodes = CudaGraphExec.nodes]_vars
  /\ [][Called("Enqueue") /\ last'.res = SUCCESS =>
          launched'.nodes = CudaGraphExec.nodes]_vars

\* a buffer-copy request that reaches beyond the memory object, by the sum
\* of the mathematical integers, and that the graph engine does not refuse
CopyExceedsBuffer ==
  /\ Called("AppendMemBufferCopy")
  /\ last'.res # BACKEND_ERROR
  /\ \/ last'.in.size + last'.in.srcOffset > MemSize
     \/ last'.in.size + last'.in.dstOffset > MemSize

\* C40: the buffer-copy append rejects with InvalidSize every request whose
\* sum size + srcOffset or size + dstOffset, taken in the integers, exceeds
\* the size of the memory object, also when the sum wraps around in size_t;
\* it records nothing.  (Calls in which the graph engine fails are left out:
\* they would hide the calls that succeed.)
C40_CopyBoundsCheckSurvivesWrapAround ==
  [][CopyExceedsBuffer =>
       /\ last'.res = INVALID_SIZE
       /\ UNCHANGED everythingButLast]_vars

====
